---- MODULE Spec2Model ----
(***************************************************************************)
(* A model of ScrollageJS 1.0.0 (src/src/index.js lines 601-1198,          *)
(* src/src/utils.js lines 120-254, src/src/animation.js lines 199-543,     *)
(* src/src/easing.js, src/src/breakpoints.js).                             *)
(*                                                                         *)
(* JavaScript values are tagged records: the tag t is what typeof and the  *)
(* truthiness tests of the code look at.  A number is NaN, an infinity or  *)
(* an exact fraction, so that every division of the code (by 100, by the   *)
(* width of a range) is computed without rounding.  Strings are sequences  *)
(* of one-character strings, so that the regular expression of             *)
(* splitValueUnit, trim and toLowerCase are computed and not looked up.    *)
(***************************************************************************)
EXTENDS Integers, Sequences, FiniteSets, TLC

VARIABLES
    this,   \* the Scrollage instance: its fields
    dom,    \* the page: matched elements, inline styles, classes, layout, scroll position
    loop,   \* the event loop: attached listeners, running timers, requested frames
    hist,   \* what the handlers did so far (history, read by the properties only)
    arg,    \* inputs of the function under study (function specifications)
    res     \* what it returned, and the samples taken so far

fvars == <<arg, res>>
vars == <<this, dom, loop, hist, arg, res>>

(***************************************************************************)
(* JavaScript values                                                       *)
(***************************************************************************)
Undefined == [t |-> "undefined"]
Null == [t |-> "null"]
Bool(b) == [t |-> "boolean", b |-> b]
Str(s) == [t |-> "string", s |-> s]
\* a TypeError raised by the expression being evaluated
Throw == [t |-> "throw"]

RECURSIVE GCD(_, _)
GCD(a, b) == IF b = 0 THEN a ELSE GCD(b, a % b)

Abs(a) == IF a < 0 THEN 0 - a ELSE a

\* the number n / d (d # 0) when g is the greatest common divisor of n and d:
\* in lowest terms with a positive denominator
Lowest(n, d, g) ==
    [t |-> "number", k |-> "finite",
     num |-> (IF d < 0 THEN 0 - n ELSE n) \div g,
     den |-> (IF d < 0 THEN 0 - d ELSE d) \div g]

Fraction(n, d) == Lowest(n, d, GCD(Abs(n), Abs(d)))

Num(n) == [t |-> "number", k |-> "finite", num |-> n, den |-> 1]
NaN == [t |-> "number", k |-> "nan"]
Infinity(sign) == [t |-> "number", k |-> "infinity", sign |-> sign]

\* a finite number whose digits the model does not compute (a sine, a
\* square root that is not rational, a fractional power of two)
Inexact == [t |-> "number", k |-> "inexact"]

Zero == Num(0)
One == Num(1)

IsFinite(x) == x.t = "number" /\ x.k = "finite"
IsNaN(x) == x.t = "number" /\ x.k = "nan"

Sign(x) ==
    IF x.k = "infinity" THEN x.sign
    ELSE IF x.num > 0 THEN 1 ELSE IF x.num < 0 THEN 0 - 1 ELSE 0

\* JavaScript truthiness: undefined, null, NaN, 0, "" and false are falsy
Truthy(v) ==
    CASE v.t = "undefined" -> FALSE
      [] v.t = "null" -> FALSE
      [] v.t = "number" -> ~IsNaN(v) /\ Sign(v) # 0
      [] v.t = "string" -> v.s # <<>>
      [] v.t = "boolean" -> v.b
      [] OTHER -> TRUE

(***************************************************************************)
(* Arithmetic on numbers, as IEEE 754 does it on the kinds (the sign of a  *)
(* zero is not kept: the code never divides by a negative zero; an inexact *)
(* number only ever meets finite ones)                                     *)
(***************************************************************************)
\* an infinity times a number of sign s
SignedInfinity(s) == IF s = 0 THEN NaN ELSE Infinity(s)

Neg(x) ==
    CASE x.k = "nan" -> x
      [] x.k = "inexact" -> x
      [] x.k = "infinity" -> [x EXCEPT !.sign = 0 - x.sign]
      [] OTHER -> [x EXCEPT !.num = 0 - x.num]

Add(x, y) ==
    CASE x.k = "nan" \/ y.k = "nan" -> NaN
      [] x.k = "inexact" \/ y.k = "inexact" -> Inexact
      [] x.k = "infinity" /\ y.k = "infinity" -> IF x.sign = y.sign THEN x ELSE NaN
      [] x.k = "infinity" -> x
      [] y.k = "infinity" -> y
      [] OTHER ->
            LET g == GCD(x.den, y.den)
            IN  Fraction(x.num * (y.den \div g) + y.num * (x.den \div g),
                         (x.den \div g) * y.den)

Sub(x, y) == Add(x, Neg(y))

Mul(x, y) ==
    CASE x.k = "nan" \/ y.k = "nan" -> NaN
      [] x.k = "inexact" \/ y.k = "inexact" -> Inexact
      [] x.k = "infinity" \/ y.k = "infinity" -> SignedInfinity(Sign(x) * Sign(y))
      [] OTHER ->
            LET g == GCD(Abs(x.num), y.den)
                h == GCD(Abs(y.num), x.den)
            IN  Fraction((x.num \div g) * (y.num \div h), (x.den \div h) * (y.den \div g))

Div(x, y) ==
    CASE x.k = "nan" \/ y.k = "nan" -> NaN
      [] x.k = "inexact" \/ y.k = "inexact" -> Inexact
      [] x.k = "infinity" /\ y.k = "infinity" -> NaN
      [] x.k = "infinity" -> Infinity(IF Sign(y) < 0 THEN 0 - x.sign ELSE x.sign)
      [] y.k = "infinity" -> Zero
      [] y.num = 0 -> IF x.num = 0 THEN NaN ELSE Infinity(Sign(x))
      [] OTHER -> Fraction(x.num * y.den, x.den * y.num)

\* x < y and x <= y: false when either is NaN
Less(x, y) ==
    CASE x.k = "nan" \/ y.k = "nan" -> FALSE
      [] x.k = "infinity" /\ y.k = "infinity" -> x.sign < y.sign
      [] x.k = "infinity" -> x.sign < 0
      [] y.k = "infinity" -> y.sign > 0
      [] OTHER -> x.num * y.den < y.num * x.den

LessEq(x, y) == ~IsNaN(x) /\ ~IsNaN(y) /\ ~Less(y, x)

\* Math.max and Math.min of two numbers: NaN when either is NaN
MathMax(x, y) == IF IsNaN(x) \/ IsNaN(y) THEN NaN ELSE IF Less(x, y) THEN y ELSE x
MathMin(x, y) == IF IsNaN(x) \/ IsNaN(y) THEN NaN ELSE IF Less(y, x) THEN y ELSE x

\* Math.round: the nearest integer, a half rounding up
MathRound(x) ==
    IF x.k # "finite" THEN x
    ELSE Num((2 * x.num + x.den) \div (2 * x.den))

RECURSIVE Pow10(_)
Pow10(d) == IF d = 0 THEN 1 ELSE 10 * Pow10(d - 1)

(***************************************************************************)
(* String primitives                                                       *)
(***************************************************************************)
DigitChars == {"0", "1", "2", "3", "4", "5", "6", "7", "8", "9"}

\* the character class [-.\d] of splitValueUnit's regular expression
NumericChars == DigitChars \cup {"-", "."}

DigitValue(c) ==
    CASE c = "0" -> 0 [] c = "1" -> 1 [] c = "2" -> 2 [] c = "3" -> 3
      [] c = "4" -> 4 [] c = "5" -> 5 [] c = "6" -> 6 [] c = "7" -> 7
      [] c = "8" -> 8 [] c = "9" -> 9

DigitChar(i) ==
    CASE i = 0 -> "0" [] i = 1 -> "1" [] i = 2 -> "2" [] i = 3 -> "3" [] i = 4 -> "4"
      [] i = 5 -> "5" [] i = 6 -> "6" [] i = 7 -> "7" [] i = 8 -> "8" [] i = 9 -> "9"

RECURSIVE DigitsValue(_)
DigitsValue(s) ==
    IF s = <<>> THEN 0
    ELSE 10 * DigitsValue(SubSeq(s, 1, Len(s) - 1)) + DigitValue(s[Len(s)])

AllDigits(s) == \A i \in 1..Len(s) : s[i] \in DigitChars

\* the numeral digits[.digits] with a digit on at least one side of the point
UnsignedNumber(s) ==
    LET dots == {i \in 1..Len(s) : s[i] = "."}
    IN  IF dots = {} THEN
            IF s # <<>> /\ AllDigits(s) THEN Num(DigitsValue(s)) ELSE NaN
        ELSE
            LET dot == CHOOSE i \in dots : TRUE
                whole == SubSeq(s, 1, dot - 1)
                frac == SubSeq(s, dot + 1, Len(s))
            IN  IF Cardinality(dots) = 1 /\ Len(s) > 1 /\ AllDigits(whole) /\ AllDigits(frac)
                THEN Fraction(DigitsValue(whole) * Pow10(Len(frac)) + DigitsValue(frac),
                              Pow10(Len(frac)))
                ELSE NaN

\* Number(string) for a string drawn from [-.\d]+ : the decimal numeral's
\* value, and NaN for "-", ".", "--5", "5-3", "1.2.3" ...
NumberOf(s) ==
    IF s # <<>> /\ s[1] = "-" THEN Neg(UnsignedNumber(Tail(s))) ELSE UnsignedNumber(s)

\* String.prototype.trim on the blanks of the modelled strings
RECURSIVE Trim(_)
Trim(s) ==
    IF s = <<>> THEN s
    ELSE IF s[1] = " " THEN Trim(Tail(s))
    ELSE IF s[Len(s)] = " " THEN Trim(SubSeq(s, 1, Len(s) - 1))
    ELSE s

LowerChar(c) ==
    CASE c = "A" -> "a" [] c = "B" -> "b" [] c = "C" -> "c" [] c = "D" -> "d"
      [] c = "E" -> "e" [] c = "F" -> "f" [] c = "G" -> "g" [] c = "H" -> "h"
      [] c = "I" -> "i" [] c = "J" -> "j" [] c = "K" -> "k" [] c = "L" -> "l"
      [] c = "M" -> "m" [] c = "N" -> "n" [] c = "O" -> "o" [] c = "P" -> "p"
      [] c = "Q" -> "q" [] c = "R" -> "r" [] c = "S" -> "s" [] c = "T" -> "t"
      [] c = "U" -> "u" [] c = "V" -> "v" [] c = "W" -> "w" [] c = "X" -> "x"
      [] c = "Y" -> "y" [] c = "Z" -> "z" [] OTHER -> c

\* String.prototype.toLowerCase
ToLowerCase(s) == [i \in 1..Len(s) |-> LowerChar(s[i])]

\* the length of the longest prefix of s made of NumericChars
RECURSIVE NumericPrefixLen(_)
NumericPrefixLen(s) ==
    IF s = <<>> \/ s[1] \notin NumericChars THEN 0
    ELSE 1 + NumericPrefixLen(Tail(s))

(***************************************************************************)
(* Objects.  An object is the sequence of its properties in insertion      *)
(* order; JSON.parse returns null, a number, a string, a boolean or an     *)
(* object.  An attribute text is a non-empty string, given by what         *)
(* JSON.parse makes of it: a value, or a SyntaxError.                      *)
(***************************************************************************)
Prop(k, v) == [k |-> k, v |-> v]
Obj(props) == [t |-> "object", props |-> props]
EmptyObject == Obj(<<>>)
SyntaxError == [t |-> "syntaxerror"]
Text(parse) == [t |-> "text", parse |-> parse]

\* null and undefined: reading a property of them, or their keys, is a TypeError
Nullish(v) == v.t \in {"null", "undefined"}

\* Object.keys(v) of a value that is not nullish: the keys of an object, the
\* indices of a string (strings of up to ten characters), none for a number
\* or a boolean
ObjectKeys(v) ==
    CASE v.t = "object" -> [i \in 1..Len(v.props) |-> v.props[i].k]
      [] v.t = "string" -> [i \in 1..Len(v.s) |-> <<DigitChar(i - 1)>>]
      [] OTHER -> <<>>

\* key in obj
HasKey(obj, key) == \E i \in 1..Len(obj.props) : obj.props[i].k = key

\* v[key]: the property's value (the last one written under that key),
\* undefined when there is none, a TypeError for null and undefined
Get(v, key) ==
    CASE v.t = "object" ->
            IF HasKey(v, key)
            THEN LET last == CHOOSE i \in 1..Len(v.props) :
                                 /\ v.props[i].k = key
                                 /\ \A j \in (i + 1)..Len(v.props) : v.props[j].k # key
                 IN  v.props[last].v
            ELSE Undefined
      [] v.t = "string" ->
            IF Len(key) = 1 /\ key[1] \in DigitChars /\ DigitValue(key[1]) < Len(v.s)
            THEN Str(<<v.s[DigitValue(key[1]) + 1]>>)
            ELSE Undefined
      [] v.t \in {"null", "undefined"} -> Throw
      [] OTHER -> Undefined

(***************************************************************************)
(* utils.js                                                                *)
(***************************************************************************)
ValueUnit(value, unit) == [t |-> "valueunit", value |-> value, unit |-> unit]

\* splitValueUnit: { value, unit } of a number or of a string; undefined for
\* any other value; a TypeError when the string has no numeric prefix (match
\* returns null and strSplit[1] is read from it)
splitValueUnit(str) ==
    IF str.t = "number" THEN ValueUnit(str, Undefined)
    ELSE IF ~Truthy(str) \/ str.t # "string" THEN Undefined
    ELSE LET k == NumericPrefixLen(str.s)
         IN  IF k = 0 THEN Throw
             ELSE ValueUnit(NumberOf(Trim(SubSeq(str.s, 1, k))),
                            Str(Trim(SubSeq(str.s, k + 1, Len(str.s)))))

UnitVW == Str(<<"v", "w">>)
UnitVH == Str(<<"v", "h">>)
UnitPX == Str(<<"p", "x">>)
Percent == Str(<<"%">>)

calculateUnitValueOfTotal(unit, value, winSizes, totalSize, elSize) ==
    CASE unit = UnitVW -> Div(Mul(winSizes.x, value), Num(100))
      [] unit = UnitVH -> Div(Mul(winSizes.y, value), Num(100))
      [] unit = UnitPX -> value
      [] OTHER -> Div(Mul(totalSize, value), Num(100))

\* calculateUnitValue: a unit and a magnitude as absolute pixels
calculateUnitValue(unit, value, winSizes, totalSize, elSize) ==
    CASE unit = UnitVW -> Div(Mul(winSizes.x, value), Num(100))
      [] unit = UnitVH -> Div(Mul(winSizes.y, value), Num(100))
      [] unit = UnitPX -> value
      [] OTHER -> Div(Mul(Sub(totalSize, elSize), value), Num(100))

\* roundValue: Math.round(value * 10 ** decimals) / 10 ** decimals
roundValue(value, decimals) ==
    Div(MathRound(Mul(value, Num(Pow10(decimals)))), Num(Pow10(decimals)))

\* safeParseJSON: the parsed value, or an empty object when JSON.parse raises
safeParseJSON(jsonString) ==
    IF jsonString.parse = SyntaxError THEN EmptyObject ELSE jsonString.parse

(***************************************************************************)
(* breakpoints.js                                                          *)
(***************************************************************************)
\* an array of JavaScript values
Arr(items) == [t |-> "array", items |-> items]

\* breakpoints[i] (counted from 0): undefined past the end
At(array, i) == IF i < Len(array.items) THEN array.items[i + 1] ELSE Undefined

WithinBreakpointStrict(width, b) == b.t = "number" /\ Less(width, b)

\* width <= b for a breakpoint b that may be anything: a comparison with
\* undefined (NaN) is false
WithinBreakpoint(width, b) == b.t = "number" /\ LessEq(width, b)

getCurrentBreakpoint(width, breakpoints) ==
    IF WithinBreakpoint(width, At(breakpoints, 0)) THEN <<"p", "h", "o", "n", "e">>
    ELSE IF WithinBreakpoint(width, At(breakpoints, 1)) THEN <<"t", "a", "b", "l", "e", "t">>
    ELSE IF WithinBreakpoint(width, At(breakpoints, 2)) THEN <<"l", "a", "p", "t", "o", "p">>
    ELSE <<"d", "e", "s", "k", "t", "o", "p">>

\* isValidBreakpoints: an array of three numbers, none smaller than the one
\* before it (lastVal starts undefined, which is not null, and i < undefined
\* is false).  The parameter defaults to [] for undefined; the length of
\* null is a TypeError, and it is read before Array.isArray is asked
isValidBreakpoints(breakpoints) ==
    CASE breakpoints.t = "null" -> Throw
      [] breakpoints.t = "array" ->
            Bool(/\ Len(breakpoints.items) = 3
                 /\ \A i \in 1..3 : breakpoints.items[i].t = "number"
                 /\ \A i \in 2..3 : ~Less(breakpoints.items[i], breakpoints.items[i - 1]))
      [] OTHER -> Bool(FALSE)

(***************************************************************************)
(* easing.js                                                               *)
(***************************************************************************)
RECURSIVE ISqrtFrom(_, _)
ISqrtFrom(n, r) == IF (r + 1) * (r + 1) > n THEN r ELSE ISqrtFrom(n, r + 1)

\* Math.sqrt: exact on the square of a fraction
MathSqrt(x) ==
    CASE x.k = "nan" -> NaN
      [] x.k = "inexact" -> Inexact
      [] x.k = "infinity" -> IF x.sign > 0 THEN x ELSE NaN
      [] x.num < 0 -> NaN
      [] OTHER ->
            LET n == ISqrtFrom(x.num, 0)
                d == ISqrtFrom(x.den, 0)
            IN  IF n * n = x.num /\ d * d = x.den THEN Fraction(n, d) ELSE Inexact

RECURSIVE Pow2Int(_)
Pow2Int(e) == IF e = 0 THEN 1 ELSE 2 * Pow2Int(e - 1)

\* Math.pow(2, x): exact on the integers from -30 to 30
MathPow2(x) ==
    CASE x.k = "nan" -> NaN
      [] x.k = "finite" /\ x.den = 1 /\ x.num \in 0..30 -> Num(Pow2Int(x.num))
      [] x.k = "finite" /\ x.den = 1 /\ (0 - x.num) \in 1..30 -> Fraction(1, Pow2Int(0 - x.num))
      [] OTHER -> Inexact

\* Math.sin(x * Math.PI): 0 at 0, 1 or -1 at the odd multiples of a half
SinPi(x) ==
    CASE x.k = "nan" \/ x.k = "infinity" -> NaN
      [] x.k = "finite" /\ x.num = 0 -> Zero
      [] x.k = "finite" /\ x.den = 2 -> IF x.num % 4 = 1 THEN One ELSE Num(0 - 1)
      [] OTHER -> Inexact

\* Math.cos(x * Math.PI): 1 or -1 at the integers
CosPi(x) ==
    CASE x.k = "nan" \/ x.k = "infinity" -> NaN
      [] x.k = "finite" /\ x.den = 1 -> IF x.num % 2 = 0 THEN One ELSE Num(0 - 1)
      [] OTHER -> Inexact

Half == Fraction(1, 2)
Two == Num(2)
Cube(m) == Mul(Mul(m, m), m)
Fifth(m) == Mul(Mul(Mul(Mul(m, m), m), m), m)

\* the keys of EasingFuncs
EasingNames ==
    {"insine", "outsine", "inoutsine", "incubic", "outcubic", "inoutcubic",
     "inquintic", "outquintic", "inoutquintic", "incircle", "outcircle", "inoutcircle",
     "inback", "outback", "inoutback", "inbounce", "outbounce", "inoutbounce",
     "inelastic", "outelastic", "inoutelastic"}

\* the constant k of the back family
BackK == Fraction(170158, 100000)
BackKInOut == Mul(BackK, Fraction(1525, 1000))

\* outbounce: only the first branch returns; every other branch assigns to
\* the constant t, which is a TypeError
outbounce(p) ==
    IF Less(p, Fraction(4, 11)) THEN Mul(Mul(Fraction(121, 16), p), p) ELSE Throw

\* inoutelastic, with s = 2 * p - 1 and k the sine
InOutElastic(s, k) ==
    IF Less(s, Zero)
    THEN Mul(Mul(Neg(Half), MathPow2(Mul(Num(10), s))), k)
    ELSE Add(One, Mul(Mul(Half, MathPow2(Mul(Num(0 - 10), s))), k))

InOutElasticAt(s) == InOutElastic(s, SinPi(Div(Sub(Mul(Num(80), s), Num(9)), Num(18))))

\* the easing functions, with m = p - 1 and t = p * 2
Eased(name, p, m, t) ==
        CASE name = "insine" -> Sub(One, CosPi(Mul(p, Half)))
          [] name = "outsine" -> SinPi(Mul(p, Half))
          [] name = "inoutsine" -> Mul(Half, Sub(One, CosPi(p)))
          [] name = "incubic" -> Cube(p)
          [] name = "outcubic" -> Add(One, Cube(m))
          [] name = "inoutcubic" ->
                IF Less(t, One) THEN Mul(Mul(p, t), t) ELSE Add(One, Mul(Cube(m), Num(4)))
          [] name = "inquintic" -> Fifth(p)
          [] name = "outquintic" -> Add(One, Fifth(m))
          [] name = "inoutquintic" ->
                IF Less(t, One) THEN Mul(Mul(Mul(Mul(p, t), t), t), t)
                ELSE Add(One, Mul(Fifth(m), Num(16)))
          [] name = "incircle" -> Sub(One, MathSqrt(Sub(One, Mul(p, p))))
          [] name = "outcircle" -> MathSqrt(Sub(One, Mul(m, m)))
          [] name = "inoutcircle" ->
                IF Less(t, One) THEN Mul(Sub(One, MathSqrt(Sub(One, Mul(t, t)))), Half)
                ELSE Mul(Add(MathSqrt(Sub(One, Mul(Num(4), Mul(m, m)))), One), Half)
          [] name = "inback" ->
                Mul(Mul(p, p), Sub(Mul(p, Add(BackK, One)), BackK))
          [] name = "outback" ->
                Add(One, Mul(Mul(m, m), Add(Mul(m, Add(BackK, One)), BackK)))
          [] name = "inoutback" ->
                IF Less(p, Half)
                THEN Mul(Mul(p, t), Sub(Mul(t, Add(BackKInOut, One)), BackKInOut))
                ELSE Add(One, Mul(Mul(Two, Mul(m, m)),
                                  Add(Mul(Mul(Two, m), Add(BackKInOut, One)), BackKInOut)))
          [] name = "inbounce" -> Throw
          [] name = "outbounce" -> outbounce(p)
          [] name = "inoutbounce" -> Throw
          [] name = "inelastic" ->
                Neg(Mul(MathPow2(Mul(Num(10), m)),
                        SinPi(Div(Sub(Mul(m, Num(40)), Num(3)), Num(6)))))
          [] name = "outelastic" ->
                Add(One, Mul(MathPow2(Mul(Num(0 - 10), p)),
                             SinPi(Div(Sub(Mul(Neg(p), Num(40)), Num(3)), Num(6)))))
          [] name = "inoutelastic" -> InOutElasticAt(Sub(Mul(Two, p), One))

\* EasingFuncs[name](p) for a key of EasingFuncs: a number, or a TypeError
\* (inbounce and inoutbounce call EasingFuncs.OutBounce, which is undefined)
EasingFuncs(name, p) == Eased(name, p, Sub(p, One), Mul(p, Two))

(***************************************************************************)
(* animation.js: the configuration extractor                               *)
(***************************************************************************)
\* { start, end } of an axis
StartEnd(start, end) == [t |-> "startend", start |-> start, end |-> end]

\* what extractStartEndData returns: start and end (combined form) or one
\* entry per axis; a field the object does not have is undefined
Extracted(start, end, x, y, z) ==
    [t |-> "config", start |-> start, end |-> end, x |-> x, y |-> y, z |-> z,
     responsive |-> Undefined, easing |-> Undefined]

AnimationTypes == <<"move", "rotate", "scale", "fade", "saturate", "blur">>

\* ANIMATION_DEFAULTS, the fields extractStartEndData reads
ANIMATION_DEFAULTS(type) ==
    LET plain(v) == ValueUnit(Num(v), Undefined)
        pct(v) == ValueUnit(Num(v), Percent)
        axis(v) == StartEnd(plain(v), plain(v))
    IN  CASE type = "move" ->
                Extracted(Undefined, Undefined,
                          StartEnd(pct(0), pct(0)), StartEnd(pct(0), pct(0)), Undefined)
          [] type = "rotate" -> Extracted(plain(0), plain(0), axis(0), axis(0), axis(0))
          [] type = "scale" -> Extracted(plain(100), plain(100), axis(100), axis(100), axis(100))
          [] type = "fade" -> Extracted(plain(100), plain(100), Undefined, Undefined, Undefined)
          [] type = "saturate" -> Extracted(plain(100), plain(100), Undefined, Undefined, Undefined)
          [] type = "blur" -> Extracted(plain(0), plain(0), Undefined, Undefined, Undefined)

KeyStart == <<"s", "t", "a", "r", "t">>
KeyEnd == <<"e", "n", "d">>
KeyResponsive == <<"r", "e", "s", "p", "o", "n", "s", "i", "v", "e">>
KeyEasing == <<"e", "a", "s", "i", "n", "g">>

\* the object with every key of obj in lower case (a later key replaces an
\* earlier one that lowers to the same name)
NormalizeKeys(obj) ==
    LET keys == ObjectKeys(obj)
    IN  Obj([i \in 1..Len(keys) |-> Prop(ToLowerCase(keys[i]), Get(obj, keys[i]))])

\* present ? splitValueUnit(value) : fallback
SplitOr(present, value, fallback) == IF present THEN splitValueUnit(value) ELSE fallback

\* { start, end }, unless a splitValueUnit raised
StartEndOf(start, end) ==
    IF start = Throw \/ end = Throw THEN Throw ELSE StartEnd(start, end)

\* newObj[axis] from the default of the axis and the two values of the
\* object: undefined when the type has no such axis or neither value is truthy
AxisOf(defaultAxis, startValue, endValue) ==
    IF ~(Truthy(defaultAxis) /\ (Truthy(startValue) \/ Truthy(endValue))) THEN Undefined
    ELSE StartEndOf(SplitOr(Truthy(startValue), startValue, defaultAxis.start),
                    SplitOr(Truthy(endValue), endValue, defaultAxis.end))

\* one pass of the loop over the axes
ExtractAxis(normalizedObj, defaultObj, axis) ==
    AxisOf(defaultObj[axis], Get(normalizedObj, KeyStart \o <<axis>>),
           Get(normalizedObj, KeyEnd \o <<axis>>))

\* the object of the combined form
CombinedOf(start, end) ==
    IF start = Throw \/ end = Throw THEN Throw
    ELSE Extracted(start, end, Undefined, Undefined, Undefined)

\* newObj after the loop over the axes
AxesOf(axes) ==
    IF \E axis \in DOMAIN axes : axes[axis] = Throw THEN Throw
    ELSE Extracted(Undefined, Undefined, axes["x"], axes["y"], axes["z"])

\* the axes first: the combined form only when no axis is configured
ExtractNormalizedAxesFirst(normalizedObj, defaultObj) ==
    LET axes == [axis \in {"x", "y", "z"} |-> ExtractAxis(normalizedObj, defaultObj, axis)]
    IN  IF \E axis \in {"x", "y", "z"} : axes[axis] # Undefined THEN AxesOf(axes)
        ELSE IF HasKey(normalizedObj, KeyStart) \/ HasKey(normalizedObj, KeyEnd) THEN
            CombinedOf(SplitOr(HasKey(normalizedObj, KeyStart), Get(normalizedObj, KeyStart),
                               defaultObj.start),
                       SplitOr(HasKey(normalizedObj, KeyEnd), Get(normalizedObj, KeyEnd),
                               defaultObj.end))
        ELSE AxesOf(axes)

\* the combined form without the defaults: a side that is not given stays
\* undefined
ExtractNormalizedGivenOnly(normalizedObj, defaultObj) ==
    IF HasKey(normalizedObj, KeyStart) \/ HasKey(normalizedObj, KeyEnd) THEN
        CombinedOf(SplitOr(HasKey(normalizedObj, KeyStart), Get(normalizedObj, KeyStart),
                           Undefined),
                   SplitOr(HasKey(normalizedObj, KeyEnd), Get(normalizedObj, KeyEnd),
                           Undefined))
    ELSE AxesOf([axis \in {"x", "y", "z"} |-> ExtractAxis(normalizedObj, defaultObj, axis)])

\* extractStartEndData once the keys are in lower case
ExtractNormalized(normalizedObj, defaultObj) ==
    IF HasKey(normalizedObj, KeyStart) \/ HasKey(normalizedObj, KeyEnd) THEN
        CombinedOf(SplitOr(HasKey(normalizedObj, KeyStart), Get(normalizedObj, KeyStart),
                           defaultObj.start),
                   SplitOr(HasKey(normalizedObj, KeyEnd), Get(normalizedObj, KeyEnd),
                           defaultObj.end))
    ELSE AxesOf([axis \in {"x", "y", "z"} |-> ExtractAxis(normalizedObj, defaultObj, axis)])

\* extractStartEndData: Object.keys of null or undefined is a TypeError
extractStartEndData(obj, defaultObj) ==
    IF Nullish(obj) THEN Throw ELSE ExtractNormalized(NormalizeKeys(obj), defaultObj)

\* the reduce over Object.keys(responsiveData): the extracted override of
\* every breakpoint key, or a TypeError
RECURSIVE ResponsiveConfig(_, _, _, _)

\* acc[breakpoint] = override, and the reduce goes on
ResponsiveWith(responsiveData, keys, type, acc, override) ==
    IF override = Throw THEN Throw
    ELSE ResponsiveConfig(responsiveData, Tail(keys), type,
                          Append(acc, Prop(Head(keys), override)))

ResponsiveConfig(responsiveData, keys, type, acc) ==
    IF keys = <<>> THEN Obj(acc)
    ELSE ResponsiveWith(responsiveData, keys, type, acc,
                        extractStartEndData(Get(responsiveData, Head(keys)),
                                            ANIMATION_DEFAULTS(type)))

\* parsedData.responsive || {}
ResponsiveData(parsedData) ==
    IF Truthy(Get(parsedData, KeyResponsive)) THEN Get(parsedData, KeyResponsive)
    ELSE EmptyObject

\* the animation { [type]: config } that is pushed
AnimationOf(type, responsiveConfig, extracted, responsive, easing) ==
    IF responsiveConfig = Throw \/ extracted = Throw THEN Throw
    ELSE [type |-> type,
          config |-> [extracted EXCEPT
                        !.responsive = IF responsive THEN responsiveConfig ELSE Undefined,
                        !.easing = IF Truthy(easing) THEN easing ELSE Undefined]]

\* the loop's body from responsiveData on
ParseResponsive(type, parsedData, responsiveData) ==
    AnimationOf(type,
                ResponsiveConfig(responsiveData, ObjectKeys(responsiveData), type, <<>>),
                extractStartEndData(parsedData, ANIMATION_DEFAULTS(type)),
                Len(ObjectKeys(responsiveData)) > 0,
                Get(parsedData, KeyEasing))

\* the loop's body from parsedData on: reading a property of null is a
\* TypeError
ParseParsed(type, parsedData) ==
    IF Nullish(parsedData) THEN Throw
    ELSE ParseResponsive(type, parsedData, ResponsiveData(parsedData))

\* the body of getAnimationData's loop for one attribute that is set: the
\* animation { [type]: config }, or a TypeError
ParseAnimation(type, data) == ParseParsed(type, safeParseJSON(data))

\* getAnimationData: el.attrs gives each data-scrollage-<type> attribute, Null
\* when the element does not have it
RECURSIVE AnimationDataFrom(_, _, _)

\* animations.push(animation), and the loop goes on
AnimationPushed(el, i, animations, animation) ==
    IF animation = Throw THEN Throw
    ELSE AnimationDataFrom(el, i + 1, Append(animations, animation))

AnimationDataFrom(el, i, animations) ==
    IF i > Len(AnimationTypes) THEN [t |-> "animations", list |-> animations]
    ELSE IF ~Truthy(el.attrs[AnimationTypes[i]]) THEN AnimationDataFrom(el, i + 1, animations)
    ELSE AnimationPushed(el, i, animations,
                         ParseAnimation(AnimationTypes[i], el.attrs[AnimationTypes[i]]))

getAnimationData(el) == AnimationDataFrom(el, 1, <<>>)

(***************************************************************************)
(* animation.js: the interpolators.  A CSS value is the sequence of its    *)
(* function tokens, name(args) with a unit; "" is the empty sequence.      *)
(***************************************************************************)
Token(fn, args, unit) == [fn |-> fn, args |-> args, unit |-> unit]
Css(tokens) == [t |-> "css", tokens |-> tokens]

\* the keys of EasingFuncs, spelled out
EasingKey ==
    [insine |-> <<"i", "n", "s", "i", "n", "e">>,
     outsine |-> <<"o", "u", "t", "s", "i", "n", "e">>,
     inoutsine |-> <<"i", "n", "o", "u", "t", "s", "i", "n", "e">>,
     incubic |-> <<"i", "n", "c", "u", "b", "i", "c">>,
     outcubic |-> <<"o", "u", "t", "c", "u", "b", "i", "c">>,
     inoutcubic |-> <<"i", "n", "o", "u", "t", "c", "u", "b", "i", "c">>,
     inquintic |-> <<"i", "n", "q", "u", "i", "n", "t", "i", "c">>,
     outquintic |-> <<"o", "u", "t", "q", "u", "i", "n", "t", "i", "c">>,
     inoutquintic |-> <<"i", "n", "o", "u", "t", "q", "u", "i", "n", "t", "i", "c">>,
     incircle |-> <<"i", "n", "c", "i", "r", "c", "l", "e">>,
     outcircle |-> <<"o", "u", "t", "c", "i", "r", "c", "l", "e">>,
     inoutcircle |-> <<"i", "n", "o", "u", "t", "c", "i", "r", "c", "l", "e">>,
     inback |-> <<"i", "n", "b", "a", "c", "k">>,
     outback |-> <<"o", "u", "t", "b", "a", "c", "k">>,
     inoutback |-> <<"i", "n", "o", "u", "t", "b", "a", "c", "k">>,
     inbounce |-> <<"i", "n", "b", "o", "u", "n", "c", "e">>,
     outbounce |-> <<"o", "u", "t", "b", "o", "u", "n", "c", "e">>,
     inoutbounce |-> <<"i", "n", "o", "u", "t", "b", "o", "u", "n", "c", "e">>,
     inelastic |-> <<"i", "n", "e", "l", "a", "s", "t", "i", "c">>,
     outelastic |-> <<"o", "u", "t", "e", "l", "a", "s", "t", "i", "c">>,
     inoutelastic |-> <<"i", "n", "o", "u", "t", "e", "l", "a", "s", "t", "i", "c">>]

\* EasingFuncs[name](clamped) when name is a key of EasingFuncs; calling
\* EasingFuncs["__proto__"] is a TypeError; any other name, "constructor"
\* included, leaves the progress as it is
EasedByName(name, clamped) ==
    IF \E known \in EasingNames : name = EasingKey[known] THEN
        EasingFuncs(CHOOSE known \in EasingNames : name = EasingKey[known], clamped)
    ELSE IF name = <<"_", "_", "p", "r", "o", "t", "o", "_", "_">> THEN Throw
    ELSE clamped

\* the progress after the easing: toLowerCase of a truthy easing that is not
\* a string is a TypeError
EasedProgress(easing, clamped) ==
    IF ~Truthy(easing) THEN clamped
    ELSE IF easing.t # "string" THEN Throw
    ELSE EasedByName(ToLowerCase(easing.s), clamped)

InterpolatedFromEnd(start, end, eased) ==
    IF eased = Throw THEN Throw ELSE Add(end, Mul(Sub(start, end), eased))

\* start + (end - start) * progress
Interpolated(start, end, eased) ==
    IF eased = Throw THEN Throw ELSE Add(start, Mul(Sub(end, start), eased))

\* getAnimationProgress: the interpolated value, or the TypeError of the
\* easing
getAnimationProgress(start, end, progress, easing) ==
    Interpolated(start, end, EasedProgress(easing, MathMax(Zero, MathMin(One, progress))))

\* .value of a { value, unit }: a TypeError when start or end is undefined
ValueOf(startOrEnd) == IF startOrEnd.t = "valueunit" THEN startOrEnd.value ELSE Throw

\* calculateMovement of move, for one axis
calculateMovement(animationData, axis, progress, rangeSize, elSize, winSize) ==
    IF ~Truthy(animationData[axis]) THEN Zero
    ELSE IF animationData[axis].start.t # "valueunit" \/ animationData[axis].end.t # "valueunit"
    THEN Throw
    ELSE getAnimationProgress(
             calculateUnitValue(animationData[axis].start.unit, animationData[axis].start.value,
                                winSize, rangeSize[axis], elSize[axis]),
             calculateUnitValue(animationData[axis].end.unit, animationData[axis].end.value,
                                winSize, rangeSize[axis], elSize[axis]),
             progress, animationData.easing)

\* translate(xpx, ypx) of the two movements
Translate(movement) ==
    IF movement["x"] = Throw \/ movement["y"] = Throw THEN Throw
    ELSE Css(<<Token("translate", <<roundValue(movement["x"], 1), roundValue(movement["y"], 1)>>,
                     "px")>>)

move(animationData, progress, rangeSize, elSize, winSize) ==
    Translate([axis \in {"x", "y"} |->
                  calculateMovement(animationData, axis, progress, rangeSize, elSize, winSize)])

\* start + (end - start) * progress of two values divided by divisor, or the
\* TypeError of reading .value of undefined
InterpolatedOver(start, end, divisor, progress, easing) ==
    IF start = Throw \/ end = Throw THEN Throw
    ELSE getAnimationProgress(Div(start, Num(divisor)), Div(end, Num(divisor)),
                              progress, easing)

\* calculateRotation and calculateScale, for one axis that is set: divisor is
\* 1 for a rotation and 100 for a scale
calculateAxis(animationData, axis, progress, divisor) ==
    InterpolatedOver(ValueOf(animationData[axis].start), ValueOf(animationData[axis].end),
                     divisor, progress, animationData.easing)

\* the tokens of the axes that are set, in the order x, y, z; a TypeError if
\* one of them raises
RECURSIVE AxisTokens(_, _, _, _, _, _)

\* the token of the first of the axes, before those of the rest
AxisToken(animationData, axes, divisor, decimals, names, value, rest) ==
    IF ~Truthy(animationData[Head(axes)]) THEN rest
    ELSE IF value = Throw THEN <<Throw>>
    ELSE IF rest # <<>> /\ rest[1] = Throw THEN <<Throw>>
    ELSE <<Token(names[Head(axes)],
                 <<IF decimals < 0 THEN value ELSE roundValue(value, decimals)>>,
                 IF divisor = 1 THEN "deg" ELSE "")>> \o rest

AxisTokens(animationData, axes, progress, divisor, decimals, names) ==
    IF axes = <<>> THEN <<>>
    ELSE AxisToken(animationData, axes, divisor, decimals, names,
                   IF Truthy(animationData[Head(axes)])
                   THEN calculateAxis(animationData, Head(axes), progress, divisor)
                   ELSE Undefined,
                   AxisTokens(animationData, Tail(axes), progress, divisor, decimals, names))

\* the value of a CSS function of one argument, or the TypeError of its
\* argument
CssOf(fn, value, decimals, unit) ==
    IF value = Throw THEN Throw
    ELSE Css(<<Token(fn, <<roundValue(value, decimals)>>, unit)>>)

\* the value of the functions of the axes, or the TypeError of one of them
CssOfAxes(tokens) ==
    IF tokens # <<>> /\ tokens[1] = Throw THEN Throw ELSE Css(tokens)

rotate(animationData, progress) ==
    IF Truthy(animationData.start) /\ Truthy(animationData.end) THEN
        CssOf("rotate",
              getAnimationProgress(animationData.start.value, animationData.end.value,
                                   progress, animationData.easing),
              1, "deg")
    ELSE
        CssOfAxes(AxisTokens(animationData, <<"x", "y", "z">>, progress, 1, 1,
                             [x |-> "rotateX", y |-> "rotateY", z |-> "rotateZ"]))

scale(animationData, progress) ==
    IF Truthy(animationData.start) /\ Truthy(animationData.end) THEN
        CssOf("scale",
              getAnimationProgress(Div(animationData.start.value, Num(100)),
                                   Div(animationData.end.value, Num(100)),
                                   progress, animationData.easing),
              2, "")
    ELSE
        CssOfAxes(AxisTokens(animationData, <<"x", "y">>, progress, 100, 0 - 1,
                             [x |-> "scaleX", y |-> "scaleY"]))

\* the opacity of a faded value
Opacity(value) == IF value = Throw THEN Throw ELSE roundValue(Div(value, Num(100)), 2)

\* fade: the opacity, a number
fade(animationData, progress) ==
    Opacity(getAnimationProgress(animationData.start.value, animationData.end.value,
                                 progress, animationData.easing))

\* saturate and blur pass no easing
saturate(animationData, progress) ==
    CssOf("saturate",
          getAnimationProgress(animationData.start.value, animationData.end.value,
                               progress, Undefined),
          0, "%")

blur(animationData, progress) ==
    CssOf("blur",
          getAnimationProgress(animationData.start.value, animationData.end.value,
                               progress, Undefined),
          0, "px")

(***************************************************************************)
(* index.js: the range and progress calculators                            *)
(*                                                                         *)
(* self holds the fields of the instance the two methods read: isVertical, *)
(* isDocumentSource, winSizes, wrapperSizes, sourceSizes, and source, the  *)
(* scroll source as the browser presents it now (id, scrollTop, scrollLeft,*)
(* rect).  A scope element is Null or a record id, offsetWidth,            *)
(* offsetHeight, rect.                                                     *)
(***************************************************************************)
Axis(self) == IF self.isVertical THEN "y" ELSE "x"

\* rangeStartData?.value || 0
ValueOrZero(data) ==
    IF data.t = "valueunit" /\ Truthy(data.value) THEN data.value ELSE Zero

\* rangeStartData?.unit || '%'
UnitOrPercent(data) ==
    IF data.t = "valueunit" /\ Truthy(data.unit) THEN data.unit ELSE Percent

getScrollPos(self) ==
    IF self.isVertical THEN self.source.scrollTop ELSE self.source.scrollLeft

RectStart(self, el) == IF self.isVertical THEN el.rect.top ELSE el.rect.left

\* Math.max(0, ...) of timelineRangeStart
ClampRangeStart(start) == MathMax(Zero, start)

ClampRangeEndFree(timelineRangeStart, end, scrollLimit) == MathMin(end, scrollLimit)

\* Math.max(timelineRangeStart, Math.min(..., ...)) of timelineRangeEnd
ClampRangeEnd(timelineRangeStart, end, scrollLimit) ==
    MathMax(timelineRangeStart, MathMin(end, scrollLimit))

TimelineRange(start, end) == [t |-> "range", start |-> start, end |-> end]

\* scrollFrameSize: the viewport's size for the document, the wrapper's for
\* a container
ScrollFrameSize(self) ==
    IF self.isDocumentSource THEN self.winSizes[Axis(self)] ELSE self.wrapperSizes[Axis(self)]

\* rangeOffsetStart and rangeOffsetEnd: calculateUnitValue(unit, value,
\* this.winSizes, contextSize, 0) of one end of the range
RangeOffset(self, data, contextSize) ==
    calculateUnitValue(UnitOrPercent(data), ValueOrZero(data), self.winSizes, contextSize, Zero)

\* contextScopeSize and contextScopeStart of a scope that is not the source
ContextScopeSize(self, scopeEl) ==
    IF self.isVertical THEN scopeEl.offsetHeight ELSE scopeEl.offsetWidth

ContextScopeStart(self, scopeEl) ==
    Sub(RectStart(self, scopeEl), RectStart(self, self.source))

\* { start: timelineRangeStart, end: timelineRangeEnd }
ClampedRange(timelineRangeStart, end, scrollLimit) ==
    TimelineRange(timelineRangeStart, ClampRangeEnd(timelineRangeStart, end, scrollLimit))

\* getTimelineRange from the two range arguments as splitValueUnit returned
\* them
SplitRange(self, scopeEl, rangeStartData, rangeEndData) ==
    IF rangeStartData = Throw \/ rangeEndData = Throw THEN Throw
    ELSE IF scopeEl = Null \/ scopeEl.id = self.source.id THEN
        ClampedRange(
            ClampRangeStart(Sub(RangeOffset(self, rangeStartData, self.sourceSizes[Axis(self)]),
                                ScrollFrameSize(self))),
            Add(self.sourceSizes[Axis(self)],
                RangeOffset(self, rangeEndData, self.sourceSizes[Axis(self)])),
            Sub(self.sourceSizes[Axis(self)], ScrollFrameSize(self)))
    ELSE
        ClampedRange(
            ClampRangeStart(Sub(Add(ContextScopeStart(self, scopeEl),
                                    RangeOffset(self, rangeStartData,
                                                ContextScopeSize(self, scopeEl))),
                                ScrollFrameSize(self))),
            Add(Add(ContextScopeStart(self, scopeEl), ContextScopeSize(self, scopeEl)),
                RangeOffset(self, rangeEndData, ContextScopeSize(self, scopeEl))),
            Sub(self.sourceSizes[Axis(self)], ScrollFrameSize(self)))

getTimelineRange(self, scopeEl, rangeStart, rangeEnd) ==
    SplitRange(self, scopeEl, splitValueUnit(rangeStart), splitValueUnit(rangeEnd))

ScrollPercentageUnsigned(scrollStart, scrollEnd) ==
    Mul(Div(scrollStart, Sub(scrollEnd, scrollStart)), Num(100))

\* scrollStart / (scrollEnd - scrollStart) * -100
ScrollPercentage(scrollStart, scrollEnd) ==
    Mul(Div(scrollStart, Sub(scrollEnd, scrollStart)), Num(0 - 100))

\* Math.min(100, Math.max(0, scrollPercentage)) / 100
ClampedProgress(scrollPercentage) ==
    Div(MathMin(Num(100), MathMax(Zero, scrollPercentage)), Num(100))

\* the progress of the scroll position in a range
ProgressIn(scrollPos, range) ==
    ClampedProgress(ScrollPercentage(Sub(range.start, scrollPos), Sub(range.end, scrollPos)))

\* getScrollProgress against a range the caller supplies (update and
\* cacheBlocks pass the block's cached range), or against the range of the
\* scope when it supplies none
getScrollProgress(self, scopeEl, timelineRangeData) ==
    ProgressIn(getScrollPos(self),
               IF timelineRangeData = Null
               THEN getTimelineRange(self, IF scopeEl = Null THEN self.source ELSE scopeEl,
                                     Num(0), Num(0))
               ELSE timelineRangeData)

(***************************************************************************)
(* The browser's side of the geometry.  A layout gives the viewport (win), *)
(* the visible box of an explicit scroll container (wrapper, at origin     *)
(* in the viewport) and its scrollable content (content); a scope element  *)
(* is a box placed in that content.  The content scrolls under the frame:  *)
(* the document root's rectangle moves with the scroll position, an        *)
(* explicit container's rectangle does not, and a scope's rectangle always *)
(* does.  Lengths are whole pixels.                                        *)
(***************************************************************************)
Sizes(box) == [x |-> Num(box.x), y |-> Num(box.y)]

SourceElement(layout, isDocumentSource, isVertical, pos) ==
    LET top == IF isVertical THEN pos ELSE 0
        left == IF isVertical THEN 0 ELSE pos
    IN  [id |-> "source",
         scrollTop |-> Num(top),
         scrollLeft |-> Num(left),
         scrollWidth |-> Num(layout.content.x),
         scrollHeight |-> Num(layout.content.y),
         offsetWidth |-> Num(layout.wrapper.x),
         offsetHeight |-> Num(layout.wrapper.y),
         rect |-> IF isDocumentSource
                  THEN [top |-> Num(0 - top), left |-> Num(0 - left)]
                  ELSE [top |-> Num(layout.origin.y), left |-> Num(layout.origin.x)]]

ScopeElement(layout, isDocumentSource, isVertical, pos, scope) ==
    LET top == IF isVertical THEN pos ELSE 0
        left == IF isVertical THEN 0 ELSE pos
        originTop == IF isDocumentSource THEN 0 ELSE layout.origin.y
        originLeft == IF isDocumentSource THEN 0 ELSE layout.origin.x
    IN  IF scope = Null THEN Null
        ELSE [id |-> "scope",
              offsetWidth |-> Num(scope.width),
              offsetHeight |-> Num(scope.height),
              clientWidth |-> Num(scope.width),
              clientHeight |-> Num(scope.height),
              rect |-> [top |-> Num(originTop + scope.top - top),
                        left |-> Num(originLeft + scope.left - left)]]

\* the fields init() sets on the instance from the layout, with the scroll
\* source as it is at scroll position pos
Instance(layout, isDocumentSource, isVertical, pos) ==
    [isVertical |-> isVertical,
     isDocumentSource |-> isDocumentSource,
     source |-> SourceElement(layout, isDocumentSource, isVertical, pos),
     sourceSizes |-> Sizes(layout.content),
     wrapperSizes |-> Sizes(layout.wrapper),
     winSizes |-> Sizes(layout.win)]

(***************************************************************************)
(* The page.  Two elements carry the class the instance selects, "a" and   *)
(* "b"; "scope" is a section of the content that "b" names as its timeline *)
(* scope; "source" is the document root.  An element of the page is known  *)
(* to the code by its identity; what its properties return is read from    *)
(* the page when the code asks.                                            *)
(***************************************************************************)
Element(id) == [t |-> "element", id |-> id]

ElementIds == {"a", "b"}

\* an inline style: the declarations the page's author wrote (text), and the
\* three properties animate writes; cssText reads and writes all of them
Style(text, transform, filter, opacity) ==
    [text |-> text, transform |-> transform, filter |-> filter, opacity |-> opacity]

\* the inline style with no declaration: its cssText is ""
EmptyStyle == Style("", <<>>, <<>>, Undefined)

\* style="" on "a", style="color: red; opacity: 0.5" on "b"
OriginalStyle(id) ==
    IF id = "a" THEN EmptyStyle ELSE Style("color: red", <<>>, <<>>, Fraction(1, 2))

\* {"endY":"100px","easing":"outBounce"}
TextMoveBounce ==
    Text(Obj(<<Prop(<<"e", "n", "d", "Y">>, Str(<<"1", "0", "0", "p", "x">>)),
               Prop(KeyEasing, Str(<<"o", "u", "t", "B", "o", "u", "n", "c", "e">>))>>))

\* {"start":100,"end":0}
TextFadeOut == Text(Obj(<<Prop(KeyStart, Num(100)), Prop(KeyEnd, Num(0))>>))

\* {"startX":"-50%","endX":"10vw","responsive":{"phone":{"endX":"0"}}}
TextMoveX ==
    Text(Obj(<<Prop(<<"s", "t", "a", "r", "t", "X">>, Str(<<"-", "5", "0", "%">>)),
               Prop(<<"e", "n", "d", "X">>, Str(<<"1", "0", "v", "w">>)),
               Prop(KeyResponsive,
                    Obj(<<Prop(<<"p", "h", "o", "n", "e">>,
                               Obj(<<Prop(<<"e", "n", "d", "X">>, Str(<<"0">>))>>))>>))>>))

NoAttributes == [type \in {"move", "rotate", "scale", "fade", "saturate", "blur"} |-> Null]

SelectorScope == Str(<<"#", "s", "c", "o", "p", "e">>)

\* what getAttribute and clientWidth / clientHeight return for an element
\* of the class
ElementData(id) ==
    IF id = "a"
    THEN [attrs |-> [NoAttributes EXCEPT !.move = TextMoveBounce],
          scope |-> Null,
          range |-> Null,
          clientWidth |-> 200, clientHeight |-> 100]
    ELSE [attrs |-> [NoAttributes EXCEPT !.move = TextMoveX, !.fade = TextFadeOut],
          scope |-> SelectorScope,
          range |-> Str(<<"2", "0", "%", " ", "-", "1", "0", "0", "p", "x">>),
          clientWidth |-> 400, clientHeight |-> 300]

\* the box of the section "scope" in the content
PageScope == [top |-> 600, left |-> 0, width |-> 800, height |-> 400]

\* the page's layouts: a page of several screens, and one whose content is
\* exactly as tall as the window, so that nothing scrolls
PageLayouts ==
    << [win |-> [x |-> 800, y |-> 500], wrapper |-> [x |-> 800, y |-> 500],
        content |-> [x |-> 800, y |-> 1300], origin |-> [x |-> 0, y |-> 0]],
       [win |-> [x |-> 600, y |-> 1300], wrapper |-> [x |-> 600, y |-> 1300],
        content |-> [x |-> 600, y |-> 1300], origin |-> [x |-> 0, y |-> 0]] >>

SelectorClass == Str(<<".", "s", "c", "r", "o", "l", "l", "a", "g", "e">>)

\* document.querySelectorAll: the elements of the class that are in the
\* document now, in document order
querySelectorAll(page, selector) ==
    IF selector = SelectorClass THEN page.matched ELSE <<>>

\* document.querySelector
querySelector(selector) ==
    IF selector = SelectorScope THEN Element("scope") ELSE Null

\* validateEl: the element itself, the element a selector finds, or null
validateEl(el) ==
    CASE el.t = "element" -> el
      [] el.t = "string" -> querySelector(el)
      [] OTHER -> Null

\* String.prototype.split(/\s+/): the words between the runs of blanks (a
\* blank at either end leaves an empty word there)
RECURSIVE SplitBlanks(_, _, _)
SplitBlanks(s, word, inBlanks) ==
    IF s = <<>> THEN <<word>>
    ELSE IF s[1] = " " THEN
        IF inBlanks THEN SplitBlanks(Tail(s), word, TRUE)
        ELSE <<word>> \o SplitBlanks(Tail(s), <<>>, TRUE)
    ELSE SplitBlanks(Tail(s), Append(word, s[1]), FALSE)

\* rangeValues[i] || 0
RangeWord(rangeValues, i) ==
    IF i <= Len(rangeValues) /\ rangeValues[i] # <<>> THEN Str(rangeValues[i]) ELSE Num(0)

(***************************************************************************)
(* index.js: the methods.  A method takes the world w it runs in and gives *)
(* the world it leaves: this (the instance), dom (the page), loop (the     *)
(* listeners, timers and frames of the event loop), threw, whether it      *)
(* ended in an uncaught error (what it had written by then stays written), *)
(* and wrote, the elements whose style animate assigned to.                *)
(***************************************************************************)
World(instance, page, eventLoop) ==
    [this |-> instance, dom |-> page, loop |-> eventLoop, threw |-> FALSE, wrote |-> {}]

Failed(w) == [w EXCEPT !.threw = TRUE]

DEFAULT_BREAKPOINTS == Arr(<<Num(781), Num(1024), Num(1366)>>)

\* Scrollage.DEFAULT_OPTIONS
DEFAULT_OPTIONS ==
    [direction |-> Str(<<"v", "e", "r", "t", "i", "c", "a", "l">>),
     source |-> Null,
     breakpoints |-> DEFAULT_BREAKPOINTS,
     triggers |-> Arr(<<>>)]

NoSizes == [x |-> Undefined, y |-> Undefined]

\* the fields the constructor sets before it calls init()
constructor(el, options) ==
    [el |-> IF Truthy(el) THEN el ELSE SelectorClass,
     options |-> options,
     source |-> Null,
     isDocumentSource |-> TRUE,
     isVertical |-> Undefined,
     sourceSizes |-> NoSizes,
     winSizes |-> NoSizes,
     wrapperSizes |-> NoSizes,
     currentBreakpoint |-> Null,
     reducedMotion |-> FALSE,
     breakpoints |-> Arr(<<>>),
     elems |-> <<>>,
     blocks |-> <<>>,
     triggers |-> <<>>,
     resizeObserver |-> FALSE]

\* the instance as the range and progress calculators read it, its source
\* being the page's scroll source as it is now
SelfView(w) ==
    [isVertical |-> Truthy(w.this.isVertical),
     isDocumentSource |-> w.this.isDocumentSource,
     winSizes |-> w.this.winSizes,
     wrapperSizes |-> w.this.wrapperSizes,
     sourceSizes |-> w.this.sourceSizes,
     source |-> SourceElement(PageLayouts[w.dom.layout], w.this.isDocumentSource,
                              Truthy(w.this.isVertical), w.dom.pos)]

\* a scope element as the page presents it now
ScopeView(w, scopeEl) ==
    IF scopeEl = Null THEN Null
    ELSE ScopeElement(PageLayouts[w.dom.layout], w.this.isDocumentSource,
                      Truthy(w.this.isVertical), w.dom.pos, PageScope)

\* el.style.cssText = text
SetCssText(w, id, style) == [w EXCEPT !.dom.style[id] = style]

\* the two words of data-scrollage-range, 0 for the one that is missing
DataRangeStart(el) ==
    IF Truthy(el.range) THEN RangeWord(SplitBlanks(el.range.s, <<>>, FALSE), 1) ELSE Num(0)

DataRangeEnd(el) ==
    IF Truthy(el.range) THEN RangeWord(SplitBlanks(el.range.s, <<>>, FALSE), 2) ELSE Num(0)

\* dataScopeSelector ? validateEl(dataScopeSelector) : null
BlockScopeEl(el) == IF Truthy(el.scope) THEN validateEl(el.scope) ELSE Null

\* scopeSizes: the client size of the scope, the scroll size of the source
\* where there is no scope
ScopeSizes(scope, source) ==
    [x |-> IF scope # Null /\ Truthy(scope.clientWidth)
           THEN scope.clientWidth ELSE source.scrollWidth,
     y |-> IF scope # Null /\ Truthy(scope.clientHeight)
           THEN scope.clientHeight ELSE source.scrollHeight]

\* the block that is pushed, or the TypeError of getAnimationData or of
\* getTimelineRange
BlockOf(originalStyles, el, self, scopeEl, scope, animations, timelineRangeData) ==
    IF animations = Throw \/ timelineRangeData = Throw THEN Throw
    ELSE [progress |-> getScrollProgress(self, scope, timelineRangeData),
          scopeEl |-> scopeEl,
          scopeSizes |-> ScopeSizes(scope, self.source),
          elSizes |-> [x |-> Num(el.clientWidth), y |-> Num(el.clientHeight)],
          timelineRangeData |-> timelineRangeData,
          animations |-> animations.list,
          originalStyles |-> originalStyles]

\* the body of cacheBlocks' loop from the scope element on
ScopedBlock(originalStyles, el, self, scopeEl, scope) ==
    BlockOf(originalStyles, el, self, scopeEl, scope, getAnimationData(el),
            getTimelineRange(self, scope, DataRangeStart(el), DataRangeEnd(el)))

\* the body of cacheBlocks' loop for one element: its block, or a TypeError
CacheBlock(w, id) ==
    ScopedBlock(w.dom.style[id], ElementData(id), SelfView(w), BlockScopeEl(ElementData(id)),
                ScopeView(w, BlockScopeEl(ElementData(id))))

\* cacheBlocks: this.blocks is emptied, then filled element by element
RECURSIVE CacheBlocksFrom(_, _)

\* this.blocks.push(block), and the loop goes on
BlockPushed(w, i, block) ==
    IF block = Throw THEN Failed(w)
    ELSE CacheBlocksFrom([w EXCEPT !.this.blocks = Append(@, block)], i + 1)

CacheBlocksFrom(w, i) ==
    IF i > Len(w.this.elems) THEN w
    ELSE BlockPushed(w, i, CacheBlock(w, w.this.elems[i]))

cacheBlocks(w) == CacheBlocksFrom([w EXCEPT !.this.blocks = <<>>], 1)

Trigger(position, class, targetEl) ==
    [position |-> position, class |-> class, targetEl |-> targetEl]

SelfTarget == Str(<<"_", "s", "e", "l", "f">>)

\* trigger.scope ? validateEl(trigger.scope) : null
TriggerScopeEl(trigger) == IF Truthy(trigger.scope) THEN validateEl(trigger.scope) ELSE Null

\* the scope for '_self', the validated target, or null
TriggerTargetEl(trigger, scopeEl) ==
    IF trigger.target = SelfTarget THEN scopeEl
    ELSE IF Truthy(trigger.target) THEN validateEl(trigger.target)
    ELSE Null

\* splitValueUnit(trigger.position) || { value: 0 }
PositionData(split) == IF Truthy(split) THEN split ELSE ValueUnit(Zero, Undefined)

\* elPos + position: against the source when the trigger has no scope,
\* against the scope (a section that does not scroll: its scroll size is its
\* client size) otherwise
TriggerPosition(trigger, self, scope, positionData) ==
    IF ~Truthy(trigger.scope) THEN
        Add(Zero, calculateUnitValue(positionData.unit, positionData.value, self.winSizes,
                                     self.sourceSizes[Axis(self)], Zero))
    ELSE
        Add(Add(RectStart(self, scope), getScrollPos(self)),
            calculateUnitValue(positionData.unit, positionData.value, self.winSizes,
                               IF self.isVertical THEN scope.clientHeight ELSE scope.clientWidth,
                               Zero))

\* the trigger to push, Undefined when the entry is skipped, or the
\* TypeError of splitValueUnit
TriggerOf(w, trigger, self, scopeEl, scope, targetEl, split) ==
    IF ~Truthy(trigger.class) \/ trigger.class.t # "string" THEN Undefined
    ELSE IF Truthy(trigger.scope) /\ ~Truthy(scopeEl) THEN Undefined
    ELSE IF Truthy(trigger.target) /\ ~Truthy(targetEl) THEN Undefined
    ELSE IF split = Throw THEN Throw
    ELSE Trigger(TriggerPosition(trigger, self, scope, PositionData(split)), trigger.class,
                 IF Truthy(targetEl) THEN targetEl ELSE w.this.source)

\* the body of cacheTriggers' loop for one entry of options.triggers
CacheTrigger(w, trigger) ==
    TriggerOf(w, trigger, SelfView(w), TriggerScopeEl(trigger),
              ScopeView(w, TriggerScopeEl(trigger)),
              TriggerTargetEl(trigger, TriggerScopeEl(trigger)),
              splitValueUnit(trigger.position))

RECURSIVE CacheTriggersFrom(_, _)

\* this.triggers.push(trigger) unless the entry is skipped, and the loop
\* goes on
TriggerPushed(w, i, trigger) ==
    IF trigger = Throw THEN Failed(w)
    ELSE IF trigger = Undefined THEN CacheTriggersFrom(w, i + 1)
    ELSE CacheTriggersFrom([w EXCEPT !.this.triggers = Append(@, trigger)], i + 1)

CacheTriggersFrom(w, i) ==
    IF i > Len(w.this.options.triggers.items) THEN w
    ELSE TriggerPushed(w, i, CacheTrigger(w, w.this.options.triggers.items[i]))

\* cacheTriggers: nothing is cached unless options.triggers is an array
cacheTriggers(w) ==
    IF w.this.options.triggers.t # "array" THEN [w EXCEPT !.this.triggers = <<>>]
    ELSE CacheTriggersFrom([w EXCEPT !.this.triggers = <<>>], 1)

\* the classes on the page once every trigger's class is added to its
\* target when the scroll position is past the trigger's position, and
\* removed otherwise
RECURSIVE TriggerClassesFrom(_, _, _, _)
TriggerClassesFrom(triggers, scrollPos, i, classes) ==
    IF i > Len(triggers) THEN classes
    ELSE TriggerClassesFrom(
             triggers, scrollPos, i + 1,
             IF Less(triggers[i].position, scrollPos)
             THEN classes \cup {<<triggers[i].targetEl.id, triggers[i].class.s>>}
             ELSE classes \ {<<triggers[i].targetEl.id, triggers[i].class.s>>})

triggerClassesUnlessReduced(w) ==
    IF w.this.source = Null THEN Failed(w)
    ELSE IF w.this.reducedMotion THEN w
    ELSE [w EXCEPT !.dom.classes =
             TriggerClassesFrom(w.this.triggers, getScrollPos(SelfView(w)), 1, @)]

\* triggerClasses: reading the scroll position of a source that is null is
\* a TypeError
triggerClasses(w) ==
    IF w.this.source = Null THEN Failed(w)
    ELSE [w EXCEPT !.dom.classes =
             TriggerClassesFrom(w.this.triggers, getScrollPos(SelfView(w)), 1, @)]

ProgressedRecached(w, self) ==
    [w EXCEPT !.this.blocks =
        [i \in 1..Len(w.this.blocks) |->
            [w.this.blocks[i] EXCEPT
                !.timelineRangeData =
                    getTimelineRange(self, ScopeView(w, w.this.blocks[i].scopeEl),
                                     Num(0), Num(0)),
                !.progress =
                    getScrollProgress(self, ScopeView(w, w.this.blocks[i].scopeEl), Null)]]]

\* the loop of update: every block's progress against its cached range
Progressed(w, self) ==
    [w EXCEPT !.this.blocks =
        [i \in 1..Len(w.this.blocks) |->
            [w.this.blocks[i] EXCEPT !.progress =
                getScrollProgress(self, ScopeView(w, w.this.blocks[i].scopeEl),
                                  w.this.blocks[i].timelineRangeData)]]]

\* if (!this.reducedMotion) requestAnimationFrame(this.animate)
RequestFrame(w) ==
    IF w.threw \/ w.this.reducedMotion THEN w ELSE [w EXCEPT !.loop.raf = @ + 1]

\* update: every block's progress, the trigger classes, and one more
\* request for an animation frame.  Reading the scroll position of a
\* source that is null is a TypeError.
update(w) ==
    IF w.this.source = Null THEN Failed(w)
    ELSE RequestFrame(triggerClasses(Progressed(w, SelfView(w))))

\* animation.X.responsive?.[breakpoint]
Override(config, breakpoint) ==
    IF Nullish(config.responsive) \/ breakpoint = Null THEN Undefined
    ELSE Get(config.responsive, breakpoint.s)

\* override || animation.X
OverrideOr(override, config) == IF Truthy(override) THEN override ELSE config

\* the override with the fields it leaves undefined taken from the base
Merged(override, config) ==
    IF ~Truthy(override) THEN config
    ELSE [override EXCEPT !.start = IF @ = Undefined THEN config.start ELSE @,
                          !.end = IF @ = Undefined THEN config.end ELSE @,
                          !.x = IF @ = Undefined THEN config.x ELSE @,
                          !.y = IF @ = Undefined THEN config.y ELSE @,
                          !.z = IF @ = Undefined THEN config.z ELSE @,
                          !.easing = IF @ = Undefined THEN config.easing ELSE @]

EffectiveConfigMerged(config, breakpoint) == Merged(Override(config, breakpoint), config)

\* animation.X.responsive?.[breakpoint] || animation.X
EffectiveConfig(config, breakpoint) == OverrideOr(Override(config, breakpoint), config)

NoStyles == [transforms |-> <<>>, filters |-> <<>>, opacityValue |-> Null]

\* the call of the animation's function on curAnimationData; saturate, blur
\* and fade are not called unless it has a start and an end
Interpolate(self, block, type, cur) ==
    CASE type = "move" ->
            move(cur, block.progress, block.scopeSizes, block.elSizes, self.winSizes)
      [] type = "rotate" -> rotate(cur, block.progress)
      [] type = "scale" -> scale(cur, block.progress)
      [] type = "saturate" ->
            IF Truthy(cur.start) /\ Truthy(cur.end) THEN saturate(cur, block.progress)
            ELSE Undefined
      [] type = "blur" ->
            IF Truthy(cur.start) /\ Truthy(cur.end) THEN blur(cur, block.progress)
            ELSE Undefined
      [] type = "fade" ->
            IF Truthy(cur.start) /\ Truthy(cur.end) THEN fade(cur, block.progress)
            ELSE Undefined

\* the inner loop of animate over the animations of one block: the strings
\* pushed to transforms and to filters and the opacity value, or a TypeError
RECURSIVE BlockStyles(_, _, _, _)

\* the value of animation j is pushed, and the loop goes on
StylePushed(self, block, j, acc, type, value) ==
    IF value = Throw THEN Throw
    ELSE IF value = Undefined THEN BlockStyles(self, block, j + 1, acc)
    ELSE IF type \in {"move", "rotate", "scale"} THEN
        BlockStyles(self, block, j + 1, [acc EXCEPT !.transforms = Append(@, value.tokens)])
    ELSE IF type \in {"saturate", "blur"} THEN
        BlockStyles(self, block, j + 1, [acc EXCEPT !.filters = Append(@, value.tokens)])
    ELSE BlockStyles(self, block, j + 1, [acc EXCEPT !.opacityValue = value])

BlockStyles(self, block, j, acc) ==
    IF j > Len(block.animations) THEN acc
    ELSE StylePushed(self, block, j, acc, block.animations[j].type,
                     Interpolate(self, block, block.animations[j].type,
                                 EffectiveConfig(block.animations[j].config,
                                                 self.currentBreakpoint)))

\* strings.join(' '), as the tokens of the value
RECURSIVE Join(_)
Join(strings) == IF strings = <<>> THEN <<>> ELSE Head(strings) \o Join(Tail(strings))

\* a number CSS can read: NaN and Infinity are not
CssNumber(x) == x.k \in {"finite", "inexact"}

\* the browser keeps a declaration only if it can parse the value; blur()
\* and saturate() take no negative argument
ValidTokens(tokens) ==
    \A i \in 1..Len(tokens) :
        /\ \A a \in 1..Len(tokens[i].args) : CssNumber(tokens[i].args[a])
        /\ tokens[i].fn \in {"blur", "saturate"} => ~Less(tokens[i].args[1], Zero)

\* el.style.transform = value, el.style.filter = value: "" removes the
\* declaration, a value that does not parse leaves it as it was
SetTokens(old, tokens) == IF ValidTokens(tokens) THEN tokens ELSE old

\* el.style.opacity = value
SetOpacity(old, value) == IF CssNumber(value) THEN value ELSE old

\* the three assignments that end the body of animate's loop
WriteStyles(style, styles) ==
    [style EXCEPT
        !.transform = IF Len(styles.transforms) > 0
                      THEN SetTokens(@, Join(styles.transforms)) ELSE @,
        !.filter = IF Len(styles.filters) > 0 THEN SetTokens(@, Join(styles.filters)) ELSE @,
        !.opacity = IF styles.opacityValue # Null THEN SetOpacity(@, styles.opacityValue) ELSE @]

\* whether the body of the loop assigns to el.style at all
Writes(styles) ==
    Len(styles.transforms) > 0 \/ Len(styles.filters) > 0 \/ styles.opacityValue # Null

\* animate: block by block, the styles of elems[i] from blocks[i]; an error
\* in one block ends the pass (elems[i] is undefined when the list of
\* elements is shorter than the list of blocks)
RECURSIVE AnimateFrom(_, _)

\* the three assignments for block i, and the loop goes on
StylesAssigned(w, i, styles) ==
    IF styles = Throw THEN Failed(w)
    ELSE IF ~Writes(styles) THEN AnimateFrom(w, i + 1)
    ELSE IF i > Len(w.this.elems) THEN Failed(w)
    ELSE AnimateFrom(
             [w EXCEPT !.dom.style[w.this.elems[i]] = WriteStyles(@, styles),
                       !.wrote = @ \cup {w.this.elems[i]}],
             i + 1)

AnimateFrom(w, i) ==
    IF i > Len(w.this.blocks) THEN w
    ELSE IF Len(w.this.blocks[i].animations) = 0 THEN AnimateFrom(w, i + 1)
    ELSE StylesAssigned(w, i, BlockStyles(w.this, w.this.blocks[i], 1, NoStyles))

animate(w) == AnimateFrom(w, 1)

\* the loop of init that resets the styles of the elements: elems[i] gets
\* the original styles of blocks[i], the blocks being those of the previous
\* run and the elements those of this one; elems[i] is undefined when there
\* are fewer elements than blocks
RECURSIVE ResetStylesFrom(_, _)
ResetStylesFrom(w, i) ==
    IF i > Len(w.this.blocks) THEN w
    ELSE IF i > Len(w.this.elems) THEN Failed(w)
    ELSE ResetStylesFrom(SetCssText(w, w.this.elems[i], w.this.blocks[i].originalStyles), i + 1)

\* init, up to the validation of the elements
InitElements(w) ==
    [w EXCEPT !.this.reducedMotion = w.dom.reduce,
              !.this.elems = IF w.this.el.t = "string"
                             THEN querySelectorAll(w.dom, w.this.el)
                             ELSE <<w.this.el.id>>]

\* init, the direction and the scroll source
InitSource(w) ==
    [w EXCEPT !.this.isVertical =
                  Bool(w.this.options.direction
                           # Str(<<"h", "o", "r", "i", "z", "o", "n", "t", "a", "l">>)),
              !.this.source = IF Truthy(w.this.options.source)
                              THEN validateEl(w.this.options.source)
                              ELSE Element("source"),
              !.this.isDocumentSource = ~Truthy(w.this.options.source)]

\* init, the sizes of the source and of the window
InitSizes(w) ==
    [w EXCEPT !.this.sourceSizes = Sizes(PageLayouts[w.dom.layout].content),
              !.this.wrapperSizes = Sizes(PageLayouts[w.dom.layout].wrapper),
              !.this.winSizes = Sizes(PageLayouts[w.dom.layout].win)]

\* isValidBreakpoints(this.options.breakpoints), the parameter's default
\* standing in for undefined
ValidBreakpoints(w) ==
    isValidBreakpoints(IF w.this.options.breakpoints = Undefined
                       THEN Arr(<<>>) ELSE w.this.options.breakpoints)

\* init, the breakpoints (isValidBreakpoints did not raise)
InitBreakpoints(w, valid) ==
    [w EXCEPT !.this.breakpoints =
                  IF valid.b THEN w.this.options.breakpoints ELSE DEFAULT_BREAKPOINTS,
              !.this.currentBreakpoint =
                  Str(getCurrentBreakpoint(
                          w.this.winSizes.x,
                          IF valid.b THEN w.this.options.breakpoints ELSE DEFAULT_BREAKPOINTS))]

\* init, the listeners: a new debounced wrapper of init on resize and one on
\* orientationchange, update on scroll and on touchmove (the same function
\* every time, so it is attached once), and the observer if there is none
InitListeners(w) ==
    [w EXCEPT !.loop.resize.n = @ + 1,
              !.loop.orientationchange.n = @ + 1,
              !.loop.scroll = TRUE,
              !.loop.touchmove = TRUE,
              !.loop.observer.connected = IF w.this.resizeObserver THEN @ ELSE TRUE,
              !.this.resizeObserver = TRUE]

\* init from the triggers on: the listeners and update()
InitCached(triggers) ==
    IF triggers.threw THEN triggers ELSE update(InitListeners(triggers))

\* init from the blocks on
InitBlocks(blocks) ==
    IF blocks.threw THEN blocks ELSE InitCached(cacheTriggers(blocks))

\* init from the reset of the styles on
InitReset(reset) ==
    IF reset.threw THEN reset ELSE InitBlocks(cacheBlocks(reset))

\* init from the breakpoints on: isValidBreakpoints may raise
InitValid(sized, valid) ==
    IF valid = Throw THEN Failed(sized)
    ELSE InitReset(ResetStylesFrom(InitBreakpoints(sized, valid), 1))

\* init from the sizes on: reading scrollWidth of a source that is null is a
\* TypeError
InitSourced(sourced) ==
    IF sourced.this.source = Null THEN Failed(sourced)
    ELSE InitValid(InitSizes(sourced), ValidBreakpoints(sourced))

\* init from the elements on: it returns if there are none
InitMatched(elements) ==
    IF Len(elements.this.elems) = 0 THEN elements ELSE InitSourced(InitSource(elements))

init(w) == InitMatched(InitElements(w))

\* the loop of destroy that restores the styles: elems[i] gets the original
\* styles of blocks[i], or no inline style at all when there is no blocks[i]
RECURSIVE RestoreStylesFrom(_, _)
RestoreStylesFrom(w, i) ==
    IF i > Len(w.this.elems) THEN w
    ELSE RestoreStylesFrom(
             SetCssText(w, w.this.elems[i],
                        IF i <= Len(w.this.blocks) THEN w.this.blocks[i].originalStyles
                        ELSE EmptyStyle),
             i + 1)

\* the classes of the cached triggers, removed from their targets
RemoveTriggerClasses(w) ==
    [w EXCEPT !.dom.classes =
        @ \ { <<w.this.triggers[i].targetEl.id, w.this.triggers[i].class.s>> :
                i \in 1..Len(w.this.triggers) }]

\* the end of destroy, the listeners: (this.options.source ? this.source :
\* window) is null when the source option matched nothing
DestroyListeners(emptied) ==
    IF Truthy(emptied.this.options.source) /\ emptied.this.source = Null THEN Failed(emptied)
    ELSE IF ~emptied.this.resizeObserver
    THEN Failed([emptied EXCEPT !.loop.scroll = FALSE, !.loop.touchmove = FALSE])
    ELSE [emptied EXCEPT !.loop.scroll = FALSE, !.loop.touchmove = FALSE,
                         !.loop.observer.connected = FALSE]

\* destroy: styles and classes are put back and the caches emptied; update
\* is removed from scroll and touchmove; removeEventListener is given a new
\* debounced wrapper for resize and for orientationchange, which is no
\* listener that was ever added, so those stay; disconnecting an observer
\* that was never created is a TypeError
destroy(w) ==
    DestroyListeners(
        [RemoveTriggerClasses(RestoreStylesFrom(w, 1)) EXCEPT !.this.elems = <<>>,
                                                               !.this.blocks = <<>>,
                                                               !.this.triggers = <<>>])

(***************************************************************************)
(* The life of one instance on the page: new Scrollage('.scrollage', {     *)
(* triggers: [{ class: 'seen', position: '50%' }] }), then the events of   *)
(* the browser and a call of destroy().                                    *)
(***************************************************************************)
\* at most MaxListeners debounced listeners get attached to an event: an
\* event that would have the timers attach more is not delivered
MaxListeners == 4
\* at most MaxFrames requested animation frames wait at a time
MaxFrames == 2

Options ==
    [DEFAULT_OPTIONS EXCEPT
        !.triggers = Arr(<<[class |-> Str(<<"s", "e", "e", "n">>),
                            scope |-> Undefined,
                            target |-> Undefined,
                            position |-> Str(<<"5", "0", "%">>)]>>)]

\* the elements of the class that are in the document
MatchedSets == {<<>>, <<"b">>, <<"a", "b">>}

\* the debounced listeners of one event: n of them are attached, the timers
\* of the first `armed` of them are still to fire, and late tells whether
\* the event that set them came after destroy()
NoListeners == [n |-> 0, armed |-> 0, late |-> FALSE]

EventLoop ==
    [resize |-> NoListeners,
     orientationchange |-> NoListeners,
     scroll |-> FALSE,
     touchmove |-> FALSE,
     observer |-> [connected |-> FALSE, armed |-> FALSE, late |-> FALSE],
     raf |-> 0]

Page(matched, layout, reduce) ==
    [matched |-> matched,
     layout |-> layout,
     pos |-> 0,
     reduce |-> reduce,
     style |-> [id \in ElementIds |-> OriginalStyle(id)],
     classes |-> {}]

\* the function specifications leave the instance alone, and this one the
\* functions' inputs
Idle == [idle |-> TRUE]

\* the elements of a pass of animate whose own styles compute and are
\* assigned
Assigns(styles) == styles # Throw /\ Writes(styles)

Due(w) ==
    { w.this.elems[i] : i \in
        { j \in 1..(IF Len(w.this.elems) < Len(w.this.blocks)
                    THEN Len(w.this.elems) ELSE Len(w.this.blocks)) :
            /\ Len(w.this.blocks[j].animations) > 0
            /\ Assigns(BlockStyles(w.this, w.this.blocks[j], 1, NoStyles)) } }

\* the constructor returned, leaving the world w
Constructed(w) ==
    /\ ~w.threw
    /\ this = w.this
    /\ dom = w.dom
    /\ loop = w.loop

Init ==
    \E matched \in MatchedSets, layout \in 1..Len(PageLayouts), reduce \in BOOLEAN :
        /\ Constructed(init(World(constructor(Undefined, Options),
                                  Page(matched, layout, reduce), EventLoop)))
        /\ hist = [destroyed |-> FALSE, late |-> FALSE, burst |-> 0,
                   last |-> "constructor", threw |-> FALSE, starved |-> {}]
        /\ arg = Idle
        /\ res = Idle

\* the world a handler starts in
Now == World(this, dom, loop)

\* what is remembered of the run of a handler: that destroy() returned; that
\* a handler ran for an event that came after that; how many times init ran
\* for the last resize event; and of the handler that ran last, its name,
\* whether it raised, and the elements of due, those whose styles it should
\* have assigned, that it did not assign to
Remember(w, name, event, late, due) ==
    [destroyed |-> hist.destroyed \/ (name = "destroy" /\ ~w.threw),
     late |-> hist.late \/ late,
     burst |-> IF event = "resize" THEN hist.burst + 1
               ELSE IF w.loop.resize.armed > 0 THEN hist.burst
               ELSE 0,
     last |-> name,
     threw |-> w.threw,
     starved |-> due \ w.wrote]

\* no handler ran in this step (the count of a burst is kept while timers of
\* it are still to fire)
NoHandler ==
    [hist EXCEPT !.last = "none", !.threw = FALSE, !.starved = {},
                 !.burst = IF loop.resize.armed > 0 THEN @ ELSE 0]

\* the timers that are still to fire
Pending(eventLoop) ==
    eventLoop.resize.armed + eventLoop.orientationchange.armed
        + (IF eventLoop.observer.armed THEN 1 ELSE 0)

\* the quiet period of a debounced listener is short: between an event and
\* the run of its listeners the page is not scrolled or changed and no
\* frame is drawn (other debounced events, and destroy(), may come)
Quiet == Pending(loop) = 0

\* an event that only starts timers, and a change of the document, commute
\* with a frame: they are taken when no frame is requested
Drawn == loop.raf = 0

\* the timers of eventLoop can fire without attaching more than
\* MaxListeners listeners
Bounded(eventLoop) == eventLoop.resize.n + Pending(eventLoop) <= MaxListeners

\* the world a handler leaves
Leave(w, name, event, late, due) ==
    /\ this' = w.this
    /\ dom' = w.dom
    /\ loop' = w.loop
    /\ hist' = Remember(w, name, event, late, due)
    /\ UNCHANGED fvars

\* a timer of a group of debounced listeners has fired
Fired(listeners) ==
    [listeners EXCEPT !.armed = @ - 1, !.late = @ /\ listeners.armed > 1]

MaxScroll(layout) == PageLayouts[layout].content.y - PageLayouts[layout].win.y

ScrollStops == {0, 800}

\* the page is scrolled to p: a scroll event, for which update runs if it
\* is attached
Scroll(p) ==
    /\ Quiet
    /\ p # dom.pos
    /\ p <= MaxScroll(dom.layout)
    /\ loop.raf < MaxFrames
    /\ LET scrolled == [Now EXCEPT !.dom.pos = p]
       IN  IF loop.scroll THEN Leave(update(scrolled), "update", "scroll", hist.destroyed, {})
           ELSE /\ dom' = scrolled.dom
                /\ hist' = NoHandler
                /\ UNCHANGED <<this, loop, arg, res>>

\* a touchmove event on the window
TouchMove ==
    /\ Quiet
    /\ loop.touchmove
    /\ loop.raf < MaxFrames
    /\ Leave(update(Now), "update", "touchmove", hist.destroyed, {})

\* the window is resized to another layout or to the same one: a resize
\* event, for which every debounced listener restarts its timer
Resize(layout) ==
    /\ Drawn
    /\ LET resized ==
               [Now EXCEPT !.dom.layout = layout,
                           !.dom.pos = IF @ > MaxScroll(layout) THEN MaxScroll(layout) ELSE @,
                           !.loop.resize.armed = loop.resize.n,
                           !.loop.resize.late = loop.resize.n > 0 /\ hist.destroyed]
       IN  /\ Bounded(resized.loop)
           /\ this' = this
           /\ dom' = resized.dom
           /\ loop' = resized.loop
    /\ hist' = [NoHandler EXCEPT !.burst = 0]
    /\ UNCHANGED fvars

\* an orientationchange event
OrientationChange ==
    /\ Drawn
    /\ loop.orientationchange.n > 0
    /\ loop' = [loop EXCEPT !.orientationchange.armed = loop.orientationchange.n,
                            !.orientationchange.late = hist.destroyed]
    /\ Bounded(loop')
    /\ hist' = NoHandler
    /\ UNCHANGED <<this, dom, arg, res>>

\* the observer reports a size of the source (it reports the first one as
\* soon as it observes)
SourceResize ==
    /\ Drawn
    /\ loop.observer.connected
    /\ loop' = [loop EXCEPT !.observer.armed = TRUE, !.observer.late = hist.destroyed]
    /\ Bounded(loop')
    /\ hist' = NoHandler
    /\ UNCHANGED <<this, dom, arg, res>>

\* the timer of a debounced resize listener fires: init runs
ResizeTimer ==
    /\ loop.resize.armed > 0
    /\ loop.raf < MaxFrames
    /\ Leave(init([Now EXCEPT !.loop.resize = Fired(@)]), "init", "resize", loop.resize.late, {})

\* the timer of a debounced orientationchange listener fires: init runs
OrientationTimer ==
    /\ loop.orientationchange.armed > 0
    /\ loop.raf < MaxFrames
    /\ Leave(init([Now EXCEPT !.loop.orientationchange = Fired(@)]), "init",
             "orientationchange", loop.orientationchange.late, {})

\* the timer of the observer's debounced callback fires: init runs
ObserverTimer ==
    /\ loop.observer.armed
    /\ loop.raf < MaxFrames
    /\ Leave(init([Now EXCEPT !.loop.observer.armed = FALSE, !.loop.observer.late = FALSE]),
             "init", "observer", loop.observer.late, {})

\* the browser runs one requested animation frame: animate runs
AnimationFrame ==
    /\ loop.raf > 0
    /\ Quiet \/ loop.raf = MaxFrames
    /\ Leave(animate([Now EXCEPT !.loop.raf = @ - 1]), "animate", "frame", FALSE, Due(Now))

\* elements of the class are inserted into the document or removed from it
DomChange(matched) ==
    /\ Quiet
    /\ Drawn
    /\ matched # dom.matched
    /\ dom' = [dom EXCEPT !.matched = matched]
    /\ hist' = NoHandler
    /\ UNCHANGED <<this, loop, arg, res>>

\* the page calls destroy(), once
Destroy ==
    /\ ~hist.destroyed
    /\ hist.last # "destroy"
    /\ Leave(destroy(Now), "destroy", "call", FALSE, {})

Next ==
    \/ \E p \in ScrollStops : Scroll(p)
    \/ TouchMove
    \/ \E layout \in 1..Len(PageLayouts) : Resize(layout)
    \/ OrientationChange
    \/ SourceResize
    \/ ResizeTimer
    \/ OrientationTimer
    \/ ObserverTimer
    \/ AnimationFrame
    \/ \E matched \in MatchedSets : DomChange(matched)
    \/ Destroy

Spec == Init /\ [][Next]_vars

(***************************************************************************)
(* Inputs of the range and progress calculators                            *)
(***************************************************************************)
RangeLayouts ==
    { \* a page of three screens
      [win |-> [x |-> 800, y |-> 500], wrapper |-> [x |-> 800, y |-> 500],
       content |-> [x |-> 2400, y |-> 1500], origin |-> [x |-> 0, y |-> 0]],
      \* content exactly as large as the frame: nothing to scroll
      [win |-> [x |-> 800, y |-> 500], wrapper |-> [x |-> 800, y |-> 500],
       content |-> [x |-> 800, y |-> 500], origin |-> [x |-> 0, y |-> 0]],
      \* a container smaller than the viewport, placed 100px into it
      [win |-> [x |-> 1000, y |-> 600], wrapper |-> [x |-> 400, y |-> 300],
       content |-> [x |-> 1200, y |-> 900], origin |-> [x |-> 100, y |-> 100]] }

RangeScopes ==
    { Null,
      [top |-> 400, left |-> 600, width |-> 300, height |-> 200],
      [top |-> 0, left |-> 0, width |-> 800, height |-> 500] }

\* the words of a data-animation-range attribute, and the default 0
RangeOffsets ==
    { Num(0),
      Str(<<"2", "0", "%">>),
      Str(<<"-", "3", "0", "%">>),
      Str(<<"-", "1", "0", "0", "p", "x">>),
      Str(<<"5", "0", "v", "h">>),
      Str(<<"1", "5", "0">>),
      Str(<<"-">>) }

RangeStops == {0, 100, 300, 400, 700, 1000}

\* the scroll positions the browser allows: 0 .. content size - frame size
MaxScrollPos(layout, isDocumentSource, isVertical) ==
    LET axis == IF isVertical THEN "y" ELSE "x"
        frame == IF isDocumentSource THEN layout.win[axis] ELSE layout.wrapper[axis]
    IN  IF layout.content[axis] > frame THEN layout.content[axis] - frame ELSE 0

ReachableStops(layout, isDocumentSource, isVertical) ==
    { p \in RangeStops : p <= MaxScrollPos(layout, isDocumentSource, isVertical) }

RangeArgs ==
    { a \in [isVertical : BOOLEAN, isDocumentSource : BOOLEAN, layout : RangeLayouts,
             scope : RangeScopes, rangeStart : RangeOffsets, rangeEnd : RangeOffsets,
             pos : {0, 300}] :
        a.pos \in ReachableStops(a.layout, a.isDocumentSource, a.isVertical) }

NoSample == [taken |-> FALSE]

RangeInit ==
    /\ arg \in RangeArgs
    /\ res = [pc |-> "start", range |-> Null, prev |-> NoSample, cur |-> NoSample]
    /\ this = Idle /\ dom = Idle /\ loop = Idle /\ hist = Idle

ArgInstance(pos) == Instance(arg.layout, arg.isDocumentSource, arg.isVertical, pos)

ArgScope(pos) == ScopeElement(arg.layout, arg.isDocumentSource, arg.isVertical, pos, arg.scope)

\* cacheBlocks' call: the range of the block, computed at
\* the scroll position the page has at that moment
RangeCall ==
    /\ res.pc = "start"
    /\ LET range == getTimelineRange(ArgInstance(arg.pos), ArgScope(arg.pos),
                                     arg.rangeStart, arg.rangeEnd)
       IN  res' = [res EXCEPT !.pc = IF range = Throw THEN "threw" ELSE "ranged",
                              !.range = range]
    /\ UNCHANGED <<arg, this, dom, loop, hist>>

\* update's call after the page scrolled to p: the
\* progress against the cached range
ProgressCall(p) ==
    /\ res.pc = "ranged"
    /\ res' = [res EXCEPT
                 !.prev = res.cur,
                 !.cur = [taken |-> TRUE, pos |-> p,
                          progress |-> getScrollProgress(ArgInstance(p), ArgScope(p), res.range)]]
    /\ UNCHANGED <<arg, this, dom, loop, hist>>

RangeNext ==
    \/ RangeCall
    \/ \E p \in ReachableStops(arg.layout, arg.isDocumentSource, arg.isVertical) : ProgressCall(p)

SpecRange == RangeInit /\ [][RangeNext]_vars

(***************************************************************************)
(* Inputs of the configuration extractor: an element with up to two of the *)
(* six data-scrollage-<type> attributes set, each to one of these texts    *)
(***************************************************************************)
KeyPhone == <<"p", "h", "o", "n", "e">>

\* {"start: 0}  (the readme's own example): not JSON
TextNotJSON == Text(SyntaxError)
\* null
TextNull == Text(Null)
\* 5
TextNumber == Text(Num(5))
\* {"start":"auto"}
TextStartAuto == Text(Obj(<<Prop(KeyStart, Str(<<"a", "u", "t", "o">>))>>))
\* {"endX":"left"}
TextEndXLeft == Text(Obj(<<Prop(<<"e", "n", "d", "X">>, Str(<<"l", "e", "f", "t">>))>>))
\* {"responsive":{"phone":null}}
TextResponsiveNull ==
    Text(Obj(<<Prop(KeyResponsive, Obj(<<Prop(KeyPhone, Null)>>))>>))
\* {"responsive":{"phone":5}}
TextResponsiveNumber ==
    Text(Obj(<<Prop(KeyResponsive, Obj(<<Prop(KeyPhone, Num(5))>>))>>))
\* {"startY":"-60px","endY":"30%"}
TextMoveY ==
    Text(Obj(<<Prop(<<"s", "t", "a", "r", "t", "Y">>, Str(<<"-", "6", "0", "p", "x">>)),
               Prop(<<"e", "n", "d", "Y">>, Str(<<"3", "0", "%">>))>>))
\* {"Start":0,"end":100}
TextStartEnd == Text(Obj(<<Prop(<<"S", "t", "a", "r", "t">>, Num(0)), Prop(KeyEnd, Num(100))>>))

\* texts that are not JSON, or whose JSON is not an object
NotAnObjectTexts == {TextNotJSON, TextNull, TextNumber}

ParseTexts ==
    NotAnObjectTexts \cup
        {TextStartAuto, TextEndXLeft, TextResponsiveNull, TextResponsiveNumber,
         TextMoveY, TextStartEnd}

TypeSet == {AnimationTypes[i] : i \in 1..Len(AnimationTypes)}

ParseElements ==
    { [attrs |-> attrs] :
        attrs \in { f \in [TypeSet -> ParseTexts \cup {Null}] :
                      Cardinality({type \in TypeSet : f[type] # Null}) <= 2 } }

ParseInit ==
    /\ arg \in ParseElements
    /\ res = [pc |-> "start", out |-> Null]
    /\ this = Idle /\ dom = Idle /\ loop = Idle /\ hist = Idle

\* cacheBlocks' call
ParseCall ==
    /\ res.pc = "start"
    /\ res' = [pc |-> "parsed", out |-> getAnimationData(arg)]
    /\ UNCHANGED <<arg, this, dom, loop, hist>>

ParseNext == ParseCall

SpecParse == ParseInit /\ [][ParseNext]_vars

(***************************************************************************)
(* Properties of the range and progress calculators (SpecRange)            *)
(***************************************************************************)
Sampled == res.pc = "ranged" /\ res.cur.taken

SampledTwice == Sampled /\ res.prev.taken

\* C2: on a degenerate range (start = end) the progress is 0 while the scroll
\* position is at or before the range's start and 1 after it, never NaN or
\* an infinity.
C2_DegenerateProgress ==
    (Sampled /\ res.range.start = res.range.end) =>
        res.cur.progress = (IF LessEq(Num(res.cur.pos), res.range.start) THEN Zero ELSE One)

C4_RangeOrdered ==
    res.pc = "ranged" =>
        (LessEq(Zero, res.range.start) /\ LessEq(res.range.start, res.range.end))

\* offsets that put the end before the start, with a scope: the range collapses
C4_Witness ==
    /\ res.pc = "ranged"
    /\ arg.scope # Null
    /\ arg.rangeStart = Str(<<"1", "5", "0">>)
    /\ arg.rangeEnd = Str(<<"-", "1", "0", "0", "p", "x">>)
    /\ Less(Zero, res.range.start)
    /\ res.range.start = res.range.end

(***************************************************************************)
(* Properties of the configuration extractor (SpecParse)                   *)
(***************************************************************************)
\* the configuration of an attribute that holds {}
EmptyConfig == Extracted(Undefined, Undefined, Undefined, Undefined, Undefined)

\* C10: getAnimationData never throws and parses each property kind on its
\* own: every attribute that is set yields an animation of its type, and one
\* whose text is not JSON, or not a JSON object, yields the empty
\* configuration.
C10_ParseIsolated ==
    res.pc = "parsed" =>
        /\ res.out # Throw
        /\ \A type \in TypeSet :
              Truthy(arg.attrs[type]) =>
                  \E i \in 1..Len(res.out.list) :
                      /\ res.out.list[i].type = type
                      /\ arg.attrs[type] \in NotAnObjectTexts =>
                            res.out.list[i].config = EmptyConfig

(***************************************************************************)
(* Properties of the instance (Spec)                                       *)
(***************************************************************************)
\* C1: in every reachable state the progress of every cached block is a
\* finite number from 0 to 1.
C1_ProgressInUnitInterval ==
    \A i \in 1..Len(this.blocks) :
        /\ IsFinite(this.blocks[i].progress)
        /\ LessEq(Zero, this.blocks[i].progress)
        /\ LessEq(this.blocks[i].progress, One)

\* C5: once destroy() has returned, no handler of the instance runs for an
\* event that is dispatched afterwards.
C5_NoHandlerAfterDestroy == hist.destroyed => ~hist.late

\* C6: when destroy() has returned, the inline style of every element of the
\* class is the one the element had before the first init (the instance is
\* the only one to write styles on this page).
C6_StylesRestored ==
    (hist.last = "destroy" /\ ~hist.threw) =>
        \A id \in ElementIds : dom.style[id] = OriginalStyle(id)

\* C7: at most one requested animation frame waits at any time.
C7_OneFramePending == loop.raf <= 1

\* C8: the resize events of a burst cause one run of init, however many
\* times init ran before: since the last resize event, init ran at most once
\* for it.
C8_OneInitPerBurst == hist.burst <= 1

\* C9: a pass of animate raises no error, and every element whose own styles
\* compute has them assigned in that pass.
C9_ElementsIsolated ==
    hist.last = "animate" => (~hist.threw /\ hist.starved = {})

(***************************************************************************)
(* Inputs of getCurrentBreakpoint: a window width and three breakpoints in *)
(* ascending order (equal neighbours included, as isValidBreakpoints       *)
(* accepts them)                                                           *)
(***************************************************************************)
BreakWidths == {0, 320, 599, 600, 601, 780, 781, 782, 800, 1024, 1025, 1366, 1367, 1400}

BreakTriples ==
    { <<781, 1024, 1366>>, <<600, 1024, 1366>>, <<600, 781, 1400>>,
      <<800, 800, 1400>>, <<320, 1366, 1366>> }

BreakInit ==
    /\ arg \in [width : BreakWidths, breakpoints : BreakTriples]
    /\ res = [pc |-> "start", out |-> Null]
    /\ this = Idle /\ dom = Idle /\ loop = Idle /\ hist = Idle

\* init's call: getCurrentBreakpoint(this.winSizes.x, this.breakpoints)
BreakCall ==
    /\ res.pc = "start"
    /\ res' = [pc |-> "named",
               out |-> getCurrentBreakpoint(
                           Num(arg.width),
                           Arr(<<Num(arg.breakpoints[1]), Num(arg.breakpoints[2]),
                                 Num(arg.breakpoints[3])>>))]
    /\ UNCHANGED <<arg, this, dom, loop, hist>>

BreakNext == BreakCall

SpecBreak == BreakInit /\ [][BreakNext]_vars

(***************************************************************************)
(* new Scrollage('.scrollage', { breakpoints: ..., source: ... }) on the   *)
(* page with both elements of the class in the document                    *)
(***************************************************************************)
\* values of the breakpoints option
BreakpointOptions ==
    { Undefined, Null, Num(5), Str(<<"a", "b", "c">>), Arr(<<>>),
      Arr(<<Num(781), Num(1024)>>),
      Arr(<<Num(600), Num(781), Num(1024), Num(1366)>>),
      Arr(<<Num(1366), Num(1024), Num(781)>>),
      Arr(<<Num(600), Str(<<"8", "0", "0">>), Num(1400)>>),
      DEFAULT_BREAKPOINTS,
      Arr(<<Num(600), Num(900), Num(1400)>>),
      Arr(<<Num(320), Num(600), Num(700)>>) }

\* values of the source option: none, a selector that finds the section
\* "scope", that element itself, a selector that finds nothing, not a
\* selector
SourceOptions ==
    { Null, Undefined, SelectorScope, Element("scope"),
      Str(<<"#", "n", "o", "n", "e">>), Num(5) }

OptionsInit ==
    /\ arg \in [breakpoints : BreakpointOptions, source : SourceOptions,
                layout : 1..Len(PageLayouts)]
    /\ res = [pc |-> "start", threw |-> FALSE]
    /\ this = Idle /\ dom = Idle /\ loop = Idle /\ hist = Idle

\* { ...Scrollage.DEFAULT_OPTIONS, ...options }
ArgOptions ==
    [DEFAULT_OPTIONS EXCEPT !.breakpoints = arg.breakpoints, !.source = arg.source]

\* the instance and the page as a world w left them
Left(w) ==
    /\ res' = [pc |-> "constructed", threw |-> w.threw]
    /\ this' = w.this
    /\ dom' = w.dom
    /\ loop' = w.loop

\* the constructor, init() included
ConstructCall ==
    /\ res.pc = "start"
    /\ Left(init(World(constructor(Undefined, ArgOptions),
                       Page(<<"a", "b">>, arg.layout, FALSE), EventLoop)))
    /\ UNCHANGED <<arg, hist>>

OptionsNext == ConstructCall

SpecOptions == OptionsInit /\ [][OptionsNext]_vars

(***************************************************************************)
(* Inputs of the value parser and of the unit conversion: the text of a    *)
(* start or end value, and the sizes move passes along with it             *)
(***************************************************************************)
SplitInputs ==
    { Str(<<"-", "6", "0", "p", "x">>), Str(<<"3", "0", "%">>), Str(<<"1", "5", "v", "w">>),
      Str(<<"5", "0", "v", "h">>), Str(<<"1", "5", "0">>), Str(<<"2", ".", "5", "p", "x">>),
      Str(<<".", "5", "e", "m">>), Str(<<"-">>), Str(<<"a", "u", "t", "o">>),
      Str(<<"l", "e", "f", "t">>), Str(<<"p", "x">>), Str(<<" ", "5", "p", "x">>),
      Str(<<>>), Num(20) }

UnitContexts ==
    [winSizes : {Sizes([x |-> 800, y |-> 500])},
     rangeSize : {Num(1000), Num(400)},
     elSize : {Num(0), Num(100), Num(500)}]

UtilInit ==
    /\ arg \in [str : SplitInputs, context : UnitContexts]
    /\ res = [pc |-> "start"]
    /\ this = Idle /\ dom = Idle /\ loop = Idle /\ hist = Idle

\* extractStartEndData's call: splitValueUnit of a start or end value
SplitCall ==
    /\ res.pc = "start"
    /\ res' = [pc |-> "split", data |-> splitValueUnit(arg.str)]
    /\ UNCHANGED <<arg, this, dom, loop, hist>>

\* calculateUnitValue as calculateMovement calls it
UnitValueOf(unit, value) ==
    calculateUnitValue(unit, value, arg.context.winSizes, arg.context.rangeSize,
                       arg.context.elSize)

\* the second value of the pairs on which the conversion is compared
Step == Num(10)

\* calculateMovement's call on the parsed value, and beside it the calls on
\* twice the value, on Step and on the value plus Step
UnitCall ==
    /\ res.pc = "split"
    /\ res.data # Throw /\ res.data # Undefined
    /\ res' = [pc |-> "resolved", data |-> res.data,
               px |-> UnitValueOf(res.data.unit, res.data.value),
               twice |-> UnitValueOf(res.data.unit, Mul(res.data.value, Num(2))),
               step |-> UnitValueOf(res.data.unit, Step),
               sum |-> UnitValueOf(res.data.unit, Add(res.data.value, Step))]
    /\ UNCHANGED <<arg, this, dom, loop, hist>>

\* the configuration of data-scrollage-move='{"startY":"-60px","endY":"30%"}'
MoveYConfig == getAnimationData([attrs |-> [NoAttributes EXCEPT !.move = TextMoveY]]).list[1].config

\* animate's call of move at progress p, for an element without a scope in
\* the context's sizes
MoveCall(p) ==
    /\ res.pc = "start"
    /\ res' = [pc |-> "moved", progress |-> p,
               translate |-> move(MoveYConfig, Num(p),
                                  [x |-> arg.context.rangeSize, y |-> arg.context.rangeSize],
                                  [x |-> arg.context.elSize, y |-> arg.context.elSize],
                                  arg.context.winSizes)]
    /\ UNCHANGED <<arg, this, dom, loop, hist>>

UtilNext ==
    \/ SplitCall
    \/ UnitCall
    \/ \E p \in {0, 1} : MoveCall(p)

SpecUtil == UtilInit /\ [][UtilNext]_vars

(***************************************************************************)
(* Two elements of the class, "a" and "b", with data-scrollage-<type>      *)
(* attributes drawn from the cases below; both have style="opacity: 0.5".  *)
(* The instance caches their animations and draws them at a progress.      *)
(***************************************************************************)
KeyStartX == <<"s", "t", "a", "r", "t", "X">>
KeyEndX == <<"e", "n", "d", "X">>
InCubic == Str(<<"i", "n", "C", "u", "b", "i", "c">>)

Px(digits) == Str(digits \o <<"p", "x">>)

\* "responsive":{"phone":override}
ResponsivePhone(override) == Prop(KeyResponsive, Obj(<<Prop(KeyPhone, override)>>))

\* {"endX":"100px"} and {"endX":"100px","easing":"inCubic"}
EndX100 == Obj(<<Prop(KeyEndX, Px(<<"1", "0", "0">>))>>)
EndX100InCubic == Obj(<<Prop(KeyEndX, Px(<<"1", "0", "0">>)), Prop(KeyEasing, InCubic)>>)
\* {"end":50} and {"start":100,"end":0,"easing":"inCubic"}
End50 == Obj(<<Prop(KeyEnd, Num(50))>>)
FadeOutInCubic ==
    Obj(<<Prop(KeyStart, Num(100)), Prop(KeyEnd, Num(0)), Prop(KeyEasing, InCubic)>>)
\* {"endZ":45}
EndZ45 == Obj(<<Prop(<<"e", "n", "d", "Z">>, Num(45))>>)

\* {"start":s,"end":e}
TextCombined(s, e) == Text(Obj(<<Prop(KeyStart, s), Prop(KeyEnd, e)>>))

Only(type, text) == [NoAttributes EXCEPT ![type] = text]

\* a fade attribute that is not JSON, or not an object, beside a move
\* attribute that is
BrokenFadeCases ==
    { [el |-> [NoAttributes EXCEPT !.fade = broken, !.move = text],
       twin |-> Only("fade", TextFadeOut)] :
        broken \in {TextNotJSON, TextNull}, text \in {TextMoveY, TextMoveBounce, TextMoveX} }

\* the same override for the phone under two different base configurations
SameOverrideCases ==
    { [el |-> Only("move",
                   Text(Obj(<<Prop(KeyStartX, Str(<<"-", "5", "0", "%">>)),
                              Prop(KeyEndX, Str(<<"1", "0", "v", "w">>)),
                              ResponsivePhone(EndX100)>>))),
       twin |-> Only("move",
                     Text(Obj(<<Prop(<<"s", "t", "a", "r", "t", "Y">>, Px(<<"2", "0">>)),
                                Prop(<<"e", "n", "d", "Y">>, Px(<<"8", "0">>)),
                                Prop(KeyEasing, InCubic),
                                ResponsivePhone(EndX100)>>)))],
      [el |-> Only("fade",
                   Text(Obj(<<Prop(KeyStart, Num(100)), Prop(KeyEnd, Num(0)),
                              ResponsivePhone(End50)>>))),
       twin |-> Only("fade",
                     Text(Obj(<<Prop(KeyStart, Num(20)), Prop(KeyEnd, Num(80)),
                                Prop(KeyEasing, InCubic), ResponsivePhone(End50)>>)))],
      [el |-> Only("rotate",
                   Text(Obj(<<Prop(KeyStart, Num(0)), Prop(KeyEnd, Num(90)),
                              ResponsivePhone(EndZ45)>>))),
       twin |-> Only("rotate",
                     Text(Obj(<<Prop(KeyStartX, Num(10)), Prop(KeyEndX, Num(20)),
                                Prop(KeyEasing, InCubic), ResponsivePhone(EndZ45)>>)))] }

\* an override for the phone that names an easing, beside an element whose
\* whole configuration is that override
OverrideEasingCases ==
    { [el |-> Only("move", Text(Obj(<<Prop(KeyEndX, Px(<<"1", "0", "0">>)),
                                      ResponsivePhone(EndX100InCubic)>>))),
       twin |-> Only("move", Text(EndX100InCubic))],
      [el |-> Only("fade", Text(Obj(<<Prop(KeyStart, Num(100)), Prop(KeyEnd, Num(0)),
                                      ResponsivePhone(FadeOutInCubic)>>))),
       twin |-> Only("fade", Text(FadeOutInCubic))] }

\* the start and end values of the plain configurations
PlainValues ==
    { <<Num(0), Num(100)>>, <<Num(100), Num(0)>>, <<Fraction(5, 2), Fraction(25, 2)>>,
      <<Fraction(1, 4), Fraction(101, 2)>> }

\* one attribute with a start and an end and nothing else
PlainCases ==
    { [el |-> Only(type, TextCombined(v[1], v[2])), twin |-> NoAttributes] :
        type \in {"rotate", "scale", "fade", "saturate", "blur"}, v \in PlainValues }
    \cup
    { [el |-> Only("move", Text(Obj(<<Prop(KeyStartX, v[1]), Prop(KeyEndX, v[2])>>))),
       twin |-> NoAttributes] :
        v \in { <<Px(<<"-", "6", "0">>), Px(<<"1", "0", "0">>)>>,
                <<Px(<<"0", ".", "2", "5">>), Px(<<"5", "0", ".", "5">>)>> } }

StyleCases == BrokenFadeCases \cup SameOverrideCases \cup OverrideEasingCases \cup PlainCases

StyleBreakpoints == {Str(KeyPhone), Str(<<"d", "e", "s", "k", "t", "o", "p">>)}

StyleInit ==
    /\ \E case \in StyleCases, breakpoint \in StyleBreakpoints :
          arg = [el |-> case.el, twin |-> case.twin, breakpoint |-> breakpoint]
    /\ res = [pc |-> "start"]
    /\ this = Idle /\ dom = Idle /\ loop = Idle /\ hist = Idle

\* style="opacity: 0.5"
HalfOpaque == Style("", <<>>, <<>>, Fraction(1, 2))

\* the block cacheBlocks pushes for an element 200px by 100px without a
\* scope, in a source 1000px by 1000px
StyleBlock(animations) ==
    [progress |-> Zero,
     scopeSizes |-> Sizes([x |-> 1000, y |-> 1000]),
     elSizes |-> Sizes([x |-> 200, y |-> 100]),
     animations |-> animations.list]

\* the instance once both blocks are cached
Cached(el, twin) ==
    IF el = Throw \/ twin = Throw THEN
        /\ res' = [pc |-> "threw"]
        /\ UNCHANGED <<this, dom>>
    ELSE
        /\ res' = [pc |-> "cached"]
        /\ this' = [elems |-> <<"a", "b">>,
                    blocks |-> <<StyleBlock(el), StyleBlock(twin)>>,
                    currentBreakpoint |-> arg.breakpoint,
                    winSizes |-> Sizes([x |-> 800, y |-> 500])]
        /\ dom' = [style |-> [id \in ElementIds |-> HalfOpaque]]

\* cacheBlocks: getAnimationData of both elements
CacheCall ==
    /\ res.pc = "start"
    /\ Cached(getAnimationData([attrs |-> arg.el]), getAnimationData([attrs |-> arg.twin]))
    /\ UNCHANGED <<arg, loop, hist>>

StyleProgress == {Zero, Fraction(1, 2), One}

\* the instance and the page after a pass of animate
Animated(w, p) ==
    /\ res' = [pc |-> "animated", progress |-> p, threw |-> w.threw, wrote |-> w.wrote]
    /\ this' = w.this
    /\ dom' = w.dom

\* update sets the progress of every block to p, and the frame it requested
\* runs animate
AnimateCall(p) ==
    /\ res.pc \in {"cached", "animated"}
    /\ Animated(animate(World([this EXCEPT !.blocks =
                                   [i \in 1..Len(this.blocks) |->
                                       [this.blocks[i] EXCEPT !.progress = p]]],
                              dom, loop)), p)
    /\ UNCHANGED <<arg, loop, hist>>

StyleNext ==
    \/ CacheCall
    \/ \E p \in StyleProgress : AnimateCall(p)

SpecStyle == StyleInit /\ [][StyleNext]_vars

(***************************************************************************)
(* The range calculator against the formula of its description (SpecRange) *)
(***************************************************************************)
RefAxis == IF arg.isVertical THEN "y" ELSE "x"

\* the viewport for the document, the container's visible box otherwise
RefFrameSize ==
    Num(IF arg.isDocumentSource THEN arg.layout.win[RefAxis] ELSE arg.layout.wrapper[RefAxis])

RefContentSize == Num(arg.layout.content[RefAxis])

\* 0 without a scope; with one, the distance between the bounding rectangles
\* of the scope and of the source when the range is computed (the content of
\* a container has moved by the scroll position under the container's box)
RefBaseStart ==
    IF arg.scope = Null THEN Zero
    ELSE Num((IF arg.isVertical THEN arg.scope.top ELSE arg.scope.left)
             - (IF arg.isDocumentSource THEN 0 ELSE arg.pos))

RefScopeSize ==
    IF arg.scope = Null THEN RefContentSize
    ELSE Num(IF arg.isVertical THEN arg.scope.height ELSE arg.scope.width)

RefBaseEnd == Add(RefBaseStart, RefScopeSize)

\* a raw offset in pixels: a missing value is 0, a missing unit is percent
RefOffset(raw) ==
    calculateUnitValue(UnitOrPercent(splitValueUnit(raw)), ValueOrZero(splitValueUnit(raw)),
                       Sizes(arg.layout.win), RefScopeSize, Zero)

RefStart ==
    MathMax(Zero, Sub(Add(RefBaseStart, RefOffset(arg.rangeStart)), RefFrameSize))

RefEnd ==
    MathMax(RefStart,
            MathMin(IF arg.scope = Null
                    THEN Sub(Add(RefBaseEnd, RefOffset(arg.rangeEnd)), RefFrameSize)
                    ELSE Add(RefBaseEnd, RefOffset(arg.rangeEnd)),
                    Sub(RefContentSize, RefFrameSize)))

\* C16: the range getTimelineRange returns is the one of the formula:
\* start = max(0, baseStart + offsetStart - frameSize) and
\* end = max(start, min(baseEnd + offsetEnd - frameSize without a scope
\* (baseEnd + offsetEnd with one), contentSize - frameSize)).
C16_RangeFormula ==
    res.pc = "ranged" => (res.range.start = RefStart /\ res.range.end = RefEnd)

(***************************************************************************)
(* The breakpoint of a width (SpecBreak)                                   *)
(***************************************************************************)
NamePhone == <<"p", "h", "o", "n", "e">>
NameTablet == <<"t", "a", "b", "l", "e", "t">>
NameLaptop == <<"l", "a", "p", "t", "o", "p">>
NameDesktop == <<"d", "e", "s", "k", "t", "o", "p">>

\* C17: for three ascending breakpoints b0, b1, b2 every width gets exactly
\* one name: phone iff width <= b0, tablet iff b0 < width <= b1, laptop iff
\* b1 < width <= b2, desktop iff width > b2; with 781, 1024, 1366 the width
\* 800 is tablet and the width 1400 is desktop.
C17_BreakpointPartition ==
    res.pc = "named" =>
        /\ res.out \in {NamePhone, NameTablet, NameLaptop, NameDesktop}
        /\ res.out = NamePhone <=> arg.width <= arg.breakpoints[1]
        /\ res.out = NameTablet <=>
               (arg.breakpoints[1] < arg.width /\ arg.width <= arg.breakpoints[2])
        /\ res.out = NameLaptop <=>
               (arg.breakpoints[2] < arg.width /\ arg.width <= arg.breakpoints[3])
        /\ res.out = NameDesktop <=> arg.width > arg.breakpoints[3]
        /\ (arg.breakpoints = <<781, 1024, 1366>> /\ arg.width = 800) => res.out = NameTablet
        /\ (arg.breakpoints = <<781, 1024, 1366>> /\ arg.width = 1400) => res.out = NameDesktop

\* the width 800 has been named against 781, 1024, 1366
C17_Witness ==
    /\ res.pc = "named"
    /\ arg.breakpoints = <<781, 1024, 1366>>
    /\ arg.width = 800
    /\ res.out = NameTablet

(***************************************************************************)
(* The options of the constructor (SpecOptions)                            *)
(***************************************************************************)
\* an array of exactly three numbers, each larger than the one before it
AscendingTriple(b) ==
    /\ b.t = "array"
    /\ Len(b.items) = 3
    /\ \A i \in 1..3 : b.items[i].t = "number"
    /\ \A i \in 2..3 : Less(b.items[i - 1], b.items[i])

\* the source option names an element of the page, or there is none
SourceResolves == arg.source \in {Null, Undefined, SelectorScope, Element("scope")}

\* C18: whatever the breakpoints option is, init completes without throwing;
\* an array of three ascending numbers is used unchanged, and for every
\* other value (null, not an array, an array of another length, not
\* ascending, not numbers) the instance uses the default 781, 1024, 1366.
C18_BreakpointsRecovered ==
    (res.pc = "constructed" /\ SourceResolves) =>
        /\ ~res.threw
        /\ this.breakpoints = IF AscendingTriple(arg.breakpoints) THEN arg.breakpoints
                              ELSE DEFAULT_BREAKPOINTS

\* C19: when the source option resolves to no element, init completes
\* without throwing, the scroll source is the document root and the instance
\* is a document source, whose frame is the viewport.
C19_SourceRecovered ==
    (res.pc = "constructed" /\ ~SourceResolves /\ arg.breakpoints # Null) =>
        /\ ~res.threw
        /\ this.source = Element("source")
        /\ this.isDocumentSource
        /\ ScrollFrameSize(this) = Num(PageLayouts[arg.layout].win.y)

(***************************************************************************)
(* The value parser and the unit conversion (SpecUtil)                     *)
(***************************************************************************)
\* a string that does not begin with a digit, a sign or a point
NoNumericPrefix(str) ==
    /\ str.t = "string"
    /\ str.s = <<>> \/ str.s[1] \notin {"-", ".", "0", "1", "2", "3", "4", "5", "6", "7", "8", "9"}

\* C20: for every string that has no numeric prefix splitValueUnit returns
\* undefined; it does not throw.
C20_UndefinedWithoutPrefix ==
    (res.pc = "split" /\ NoNumericPrefix(arg.str)) => res.data = Undefined

\* the conversion as it is described: px is the value, vw and vh are
\* hundredths of the viewport's width and height, everything else is
\* hundredths of the container's size less the element's
RefPixels(unit, value) ==
    CASE unit = UnitPX -> value
      [] unit = UnitVW -> Div(Mul(arg.context.winSizes.x, value), Num(100))
      [] unit = UnitVH -> Div(Mul(arg.context.winSizes.y, value), Num(100))
      [] OTHER -> Div(Mul(Sub(arg.context.rangeSize, arg.context.elSize), value), Num(100))

\* calculateUnitValue is the described conversion, and it is linear in the
\* value
C15_Conversion ==
    res.pc = "resolved" =>
        /\ res.px = RefPixels(res.data.unit, res.data.value)
        /\ res.twice = Mul(res.px, Num(2))
        /\ res.sum = Add(res.px, res.step)

\* the Y translation of the element of the scenario in a container 1000px
\* high under a viewport 500px high
ScenarioMoved(p) ==
    /\ res.pc = "moved"
    /\ res.progress = p
    /\ arg.context.rangeSize = Num(1000)
    /\ arg.context.winSizes.y = Num(500)

TranslateY == res.translate.tokens[1].args[2]

\* C15, with the element's height in the scenario: calculateUnitValue is the
\* reference conversion (px the value, vw and vh hundredths of the viewport,
\* any other unit hundredths of container size - element size) and linear in
\* the value; for {startY:"-60px", endY:"30%"} without a scope, container
\* 1000px and viewport 500px high, the Y translation is -60px at progress 0
\* and 30% of (1000px - element height) at progress 1: 150px for an element
\* 500px high, 300px for one of height 0.
C15_ConversionAndScenario ==
    /\ C15_Conversion
    /\ ScenarioMoved(0) => TranslateY = Num(0 - 60)
    /\ ScenarioMoved(1) =>
           TranslateY = Div(Mul(Sub(Num(1000), arg.context.elSize), Num(30)), Num(100))
    /\ (ScenarioMoved(1) /\ arg.context.elSize = Num(500)) => TranslateY = Num(150)
    /\ (ScenarioMoved(1) /\ arg.context.elSize = Num(0)) => TranslateY = Num(300)

\* C15 as stated: the same conversion, and in the scenario -60px at progress
\* 0 and 150px at progress 1.
C15_ScenarioAsStated ==
    /\ C15_Conversion
    /\ ScenarioMoved(0) => TranslateY = Num(0 - 60)
    /\ ScenarioMoved(1) => TranslateY = Num(150)

\* the element of the scenario, of height 0, has been moved at progress 1
C15_Witness ==
    /\ ScenarioMoved(1)
    /\ arg.context.elSize = Num(0)
    /\ TranslateY = Num(300)

(***************************************************************************)
(* The styles animate writes (SpecStyle)                                   *)
(***************************************************************************)
\* the element "a" has a fade attribute that is not JSON and a move
\* attribute that is a configuration, and a pass of animate has run
BrokenFadeAnimated ==
    /\ res.pc = "animated"
    /\ arg.el.fade = TextNotJSON
    /\ arg.el.move \in {TextMoveY, TextMoveBounce, TextMoveX}

\* C11: for an element whose fade attribute is malformed JSON and whose move
\* attribute is valid, every pass of animate leaves the opacity of the
\* element as it was and writes the translate of the move to its transform.
C11_FadeSkippedMoveApplied ==
    BrokenFadeAnimated =>
        /\ ~res.threw
        /\ "a" \in res.wrote
        /\ dom.style["a"].opacity = HalfOpaque.opacity
        /\ Len(dom.style["a"].transform) = 1
        /\ dom.style["a"].transform[1].fn = "translate"
        /\ dom.style["a"].filter = <<>>

\* the one attribute both elements have, if they have one each and the same
AttributeTypes(attrs) == {type \in TypeSet : attrs[type] # Null}

\* both elements have one attribute, of the same type, whose JSON texts are
\* two objects
Paired(type) ==
    /\ AttributeTypes(arg.el) = {type}
    /\ AttributeTypes(arg.twin) = {type}
    /\ arg.el[type].parse.t = "object"
    /\ arg.twin[type].parse.t = "object"

\* the two configurations differ and have the same "responsive", with an
\* entry for the phone
SameOverride(type) ==
    /\ Paired(type)
    /\ arg.el[type].parse # arg.twin[type].parse
    /\ HasKey(arg.el[type].parse, KeyResponsive)
    /\ Get(arg.el[type].parse, KeyResponsive) = Get(arg.twin[type].parse, KeyResponsive)
    /\ HasKey(Get(arg.el[type].parse, KeyResponsive), KeyPhone)

OnPhone == arg.breakpoint = Str(KeyPhone)

\* C12: an override replaces the base configuration as a whole: two elements
\* whose configurations have the same override for the active breakpoint and
\* different base values (start, end, axes, easing) get identical styles at
\* that breakpoint.
C12_OverrideReplacesBase ==
    \A type \in TypeSet :
        (res.pc = "animated" /\ OnPhone /\ SameOverride(type)) =>
            /\ ~res.threw
            /\ res.wrote = {"a", "b"}
            /\ dom.style["a"] = dom.style["b"]

\* the move overridden by {"endX":"100px"}, drawn half way on the phone
C12_Witness ==
    /\ res.pc = "animated"
    /\ OnPhone
    /\ SameOverride("move")
    /\ res.progress = Fraction(1, 2)
    /\ dom.style["a"].transform = <<Token("translate", <<Num(50), Num(0)>>, "px")>>
    /\ dom.style["b"].transform = <<Token("translate", <<Num(50), Num(0)>>, "px")>>

\* the override of "a" for the phone names an easing, and the whole
\* configuration of "b" is that override
OverrideAsBase(type) ==
    /\ Paired(type)
    /\ HasKey(arg.el[type].parse, KeyResponsive)
    /\ HasKey(Get(arg.el[type].parse, KeyResponsive), KeyPhone)
    /\ Get(Get(arg.el[type].parse, KeyResponsive), KeyPhone) = arg.twin[type].parse
    /\ HasKey(arg.twin[type].parse, KeyEasing)

\* C13: an override is extracted like a base configuration, its easing
\* included: at the breakpoint of an override that names an easing the
\* element is drawn with that easing, as an element is whose base
\* configuration is the override.
C13_OverrideEasingUsed ==
    \A type \in TypeSet :
        (res.pc = "animated" /\ OnPhone /\ OverrideAsBase(type)) =>
            /\ ~res.threw
            /\ dom.style["a"] = dom.style["b"]

\* "a" has one attribute, a configuration with a start and an end and no
\* easing or override, and "b" has none
Plain(type) ==
    /\ AttributeTypes(arg.el) = {type}
    /\ AttributeTypes(arg.twin) = {}
    /\ arg.el[type].parse.t = "object"
    /\ ~HasKey(arg.el[type].parse, KeyResponsive)
    /\ ~HasKey(arg.el[type].parse, KeyEasing)

\* the configured start and end: numbers, and for move the pixels of startX
\* and endX
ConfiguredStart(type) ==
    IF type = "move" THEN splitValueUnit(Get(arg.el[type].parse, KeyStartX)).value
    ELSE Get(arg.el[type].parse, KeyStart)

ConfiguredEnd(type) ==
    IF type = "move" THEN splitValueUnit(Get(arg.el[type].parse, KeyEndX)).value
    ELSE Get(arg.el[type].parse, KeyEnd)

\* a configured value in the unit of the CSS value: scale and fade are
\* configured in percent and written as factors
InCss(type, value) == IF type \in {"scale", "fade"} THEN Div(value, Num(100)) ELSE value

\* the number in the CSS value the element got
Emitted(type) ==
    CASE type \in {"move", "rotate", "scale"} -> dom.style["a"].transform[1].args[1]
      [] type \in {"saturate", "blur"} -> dom.style["a"].filter[1].args[1]
      [] type = "fade" -> dom.style["a"].opacity

\* the decimals the interpolators keep
Precision(type) ==
    CASE type \in {"move", "rotate"} -> 1
      [] type \in {"scale", "fade"} -> 2
      [] type \in {"saturate", "blur"} -> 0

PlainAnimated(type, p) ==
    /\ res.pc = "animated"
    /\ res.progress = p
    /\ Plain(type)

Frozen(block) == [block EXCEPT !.progress = Zero]

\* C26: a run of update changes of the blocks only the progress: their
\* number and order, and every block's range, scope, sizes, animations and
\* original styles stay as they are, no style is written, and the new
\* progress is the one of the scroll position in the cached range.
C26_UpdateOnlyProgress ==
    [][hist'.last = "update" =>
          /\ this'.elems = this.elems
          /\ this'.triggers = this.triggers
          /\ dom'.style = dom.style
          /\ Len(this'.blocks) = Len(this.blocks)
          /\ \A i \in 1..Len(this.blocks) :
                /\ Frozen(this'.blocks[i]) = Frozen(this.blocks[i])
                /\ this'.blocks[i].progress =
                       ProgressIn(Num(dom'.pos), this.blocks[i].timelineRangeData)]_vars

\* update has run at the bottom of the page for both elements, and the
\* block of "b" has the range its attributes give
C26_Witness ==
    /\ hist.last = "update"
    /\ ~hist.threw
    /\ dom.pos = 800
    /\ Len(this.blocks) = 2
    /\ this.blocks[2].timelineRangeData = TimelineRange(Num(180), Num(800))
    /\ this.blocks[2].progress = One

\* C27: after every run of init, also one that matches fewer elements than
\* the run before or none, there are as many blocks as elements and block i
\* is the one of element i.
C27_BlocksMatchElements ==
    (hist.last \in {"constructor", "init"}) =>
        /\ ~hist.threw
        /\ Len(this.blocks) = Len(this.elems)
        /\ \A i \in 1..Len(this.blocks) :
              this.blocks[i].elSizes =
                  Sizes([x |-> ElementData(this.elems[i]).clientWidth,
                         y |-> ElementData(this.elems[i]).clientHeight])

C30_DestroyCompletes == hist.last = "destroy" => ~hist.threw

(***************************************************************************)
(* The range of a scope at two scroll positions (SpecRange)                *)
(***************************************************************************)
\* the range init would cache for the same element, layout and offsets with
\* the page scrolled to p
RangeAt(p) == getTimelineRange(ArgInstance(p), ArgScope(p), arg.rangeStart, arg.rangeEnd)

\* C28: the range of an element with a scope does not depend on the scroll
\* position at which init computes it: for the same layout, the runs at any
\* two scroll positions give the same start and end, for the document as
\* the source and for a scroll container.
C28_RangeIgnoresScroll ==
    (res.pc = "ranged" /\ arg.scope # Null) =>
        \A p \in ReachableStops(arg.layout, arg.isDocumentSource, arg.isVertical) :
            RangeAt(p) = res.range


(***************************************************************************)
(* getAnimationProgress on its own: the value between start and end for    *)
(* a progress and the easing of a configuration                            *)
(***************************************************************************)
\* "inOutQuintic", "OUTSINE", "OutBounce", "linear", "bounce", "constructor", "__proto__"
InOutQuinticCamel == Str(<<"i", "n", "O", "u", "t", "Q", "u", "i", "n", "t", "i", "c">>)
OutSineUpper == Str(<<"O", "U", "T", "S", "I", "N", "E">>)
OutBounceCamel == Str(<<"O", "u", "t", "B", "o", "u", "n", "c", "e">>)
NameLinear == Str(<<"l", "i", "n", "e", "a", "r">>)
NameBounce == Str(<<"b", "o", "u", "n", "c", "e">>)
NameConstructor == Str(<<"c", "o", "n", "s", "t", "r", "u", "c", "t", "o", "r">>)
NameProto == Str(<<"_", "_", "p", "r", "o", "t", "o", "_", "_">>)

\* the values "easing" can have in a parsed configuration: absent, a key of
\* EasingFuncs in lower or mixed case, another string, a number, true
EaseValues ==
    {Undefined} \cup {Str(EasingKey[known]) : known \in EasingNames}
    \cup {InCubic, InOutQuinticCamel, OutSineUpper, OutBounceCamel}
    \cup {NameLinear, NameBounce, NameConstructor, NameProto, Num(5), Bool(TRUE)}

EaseProgress ==
    {Fraction(0 - 1, 2), Zero, Fraction(1, 4), Fraction(4, 11), Fraction(1, 2),
     Fraction(3, 4), One, Fraction(3, 2)}

EaseEnds == {<<0, 100>>, <<100, 0>>, <<0, 360>>}

EaseInit ==
    /\ arg \in [ends : EaseEnds, progress : EaseProgress, easing : EaseValues]
    /\ res = [pc |-> "start"]
    /\ this = Idle /\ dom = Idle /\ loop = Idle /\ hist = Idle

\* a calculate function's call of getAnimationProgress
EaseCall ==
    /\ res.pc = "start"
    /\ res' = [pc |-> "eased",
               value |-> getAnimationProgress(Num(arg.ends[1]), Num(arg.ends[2]),
                                              arg.progress, arg.easing)]
    /\ UNCHANGED <<arg, this, dom, loop, hist>>

EaseNext == EaseCall

SpecEase == EaseInit /\ [][EaseNext]_vars

\* the key of EasingFuncs an easing value names, in any case
Names(easing, known) == easing.t = "string" /\ ToLowerCase(easing.s) = EasingKey[known]

Supported(easing) == \E known \in EasingNames : Names(easing, known)

\* start + (end - start) * clamp01(progress)
Linear ==
    LET p == arg.progress
        clamp01 == IF Less(p, Zero) THEN Zero ELSE IF Less(One, p) THEN One ELSE p
    IN  Add(Num(arg.ends[1]), Mul(Sub(Num(arg.ends[2]), Num(arg.ends[1])), clamp01))

\* C21: for an easing value that names no supported function the value is
\* the linear interpolation start + (end - start) * clamp01(progress), and
\* nothing is thrown
C21_UnknownEasingLinear ==
    (res.pc = "eased" /\ ~Supported(arg.easing)) => res.value = Linear

\* a number: finite, exact or rounded
Numeric(v) == v # Throw /\ v # NaN /\ v.t = "number"

\* C22: every supported easing function returns a number for every progress
\* between 0 and 1 and raises no error
C22_SupportedEasingNumeric ==
    (res.pc = "eased" /\ Supported(arg.easing)
        /\ LessEq(Zero, arg.progress) /\ LessEq(arg.progress, One))
    => Numeric(res.value)

(***************************************************************************)
(* cacheBlocks and animate for configurations that give only some of       *)
(* their start and end values                                              *)
(***************************************************************************)
\* the numbers a configuration gives
GivenNumbers == {Num(0), Num(20)}

\* {ks: v}, {ke: v} and {ks: v, ke: w}
PartialObjects(ks, ke, values) ==
    {Obj(<<Prop(ks, v)>>) : v \in values} \cup {Obj(<<Prop(ke, v)>>) : v \in values}
    \cup {Obj(<<Prop(ks, vw[1]), Prop(ke, vw[2])>>) :
            vw \in {pair \in values \X values : pair[1] # pair[2]}}

\* one attribute that gives a start, an end or both, in the combined form,
\* on the X axis, and for move in pixels; {"end":360} of a rotate
PartialCases ==
    { [el |-> Only(type, Text(obj)), twin |-> NoAttributes] :
        type \in {"rotate", "scale", "fade", "saturate", "blur"},
        obj \in PartialObjects(KeyStart, KeyEnd, GivenNumbers) }
    \cup
    { [el |-> Only(type, Text(obj)), twin |-> NoAttributes] :
        type \in {"rotate", "scale"}, obj \in PartialObjects(KeyStartX, KeyEndX, GivenNumbers) }
    \cup
    { [el |-> Only("move", Text(obj)), twin |-> NoAttributes] :
        obj \in PartialObjects(KeyStartX, KeyEndX, {Num(0), Px(<<"2", "0">>)}) }
    \cup
    { [el |-> Only("rotate", Text(Obj(<<Prop(KeyEnd, Num(360))>>))), twin |-> NoAttributes] }

\* "endX":90, and "startY":5,"endZ":7
AxisKeys ==
    { <<Prop(KeyEndX, Num(90))>>,
      <<Prop(<<"s", "t", "a", "r", "t", "Y">>, Num(5)), Prop(<<"e", "n", "d", "Z">>, Num(7))>> }

\* a combined form with keys of the axes beside it, and the same combined
\* form on its own
CombinedCases ==
    { [el |-> Only(type, Text(Obj(combined \o axes))),
       twin |-> Only(type, Text(Obj(combined)))] :
        type \in {"rotate", "scale"},
        combined \in { <<Prop(KeyEnd, Num(360))>>,
                       <<Prop(KeyStart, Num(10)), Prop(KeyEnd, Num(50))>> },
        axes \in AxisKeys }

\* a filter with neither a start nor an end, or with a start that is null,
\* "" or "auto"
UnresolvedCases ==
    { [el |-> Only(type, Text(obj)), twin |-> NoAttributes] :
        type \in {"saturate", "blur"},
        obj \in { EmptyObject,
                  Obj(<<Prop(KeyEasing, InCubic)>>),
                  Obj(<<Prop(KeyStart, Null), Prop(KeyEnd, Num(20))>>),
                  Obj(<<Prop(KeyStart, Str(<<>>)), Prop(KeyEnd, Num(20))>>),
                  Obj(<<Prop(KeyStart, Num(20)), Prop(KeyEnd, Null)>>),
                  Obj(<<Prop(KeyStart, Str(<<"a", "u", "t", "o">>)), Prop(KeyEnd, Num(20))>>) } }

ConfigCases == PartialCases \cup CombinedCases \cup UnresolvedCases

ConfigInit ==
    /\ \E case \in ConfigCases, breakpoint \in StyleBreakpoints :
          arg = [el |-> case.el, twin |-> case.twin, breakpoint |-> breakpoint]
    /\ res = [pc |-> "start"]
    /\ this = Idle /\ dom = Idle /\ loop = Idle /\ hist = Idle

SpecConfig == ConfigInit /\ [][StyleNext]_vars

(***************************************************************************)
(* Defaults, the combined form and the filters                             *)
(***************************************************************************)
\* the parsed configuration of the one attribute "a" has
Config(type) == arg.el[type].parse

\* "a" has one attribute, a JSON object, and "b" has none
Sole(type) ==
    /\ AttributeTypes(arg.el) = {type}
    /\ AttributeTypes(arg.twin) = {}
    /\ Config(type).t = "object"

HasCombined(obj) == HasKey(obj, KeyStart) \/ HasKey(obj, KeyEnd)

\* the keys of the configuration's start and end: the combined ones, or those
\* of the X axis
StartKey(type) == IF HasCombined(Config(type)) THEN KeyStart ELSE KeyStartX
EndKey(type) == IF HasCombined(Config(type)) THEN KeyEnd ELSE KeyEndX

\* a value that stands for a number: a number, or a string that begins with
\* one
Resolves(v) == v.t = "number" \/ (v.t = "string" /\ NumericPrefixLen(v.s) > 0)

\* the number a given value stands for
GivenValue(v) == IF v.t = "number" THEN v ELSE NumberOf(SubSeq(v.s, 1, NumericPrefixLen(v.s)))

\* the defaults as documented: fade 100, saturate 100, scale 100, rotate 0,
\* move 0, blur 0
DefaultOf(type) == IF type \in {"fade", "saturate", "scale"} THEN Num(100) ELSE Zero

\* the value under key when it is given, the default otherwise
GivenOrDefault(type, key) ==
    IF HasKey(Config(type), key) THEN GivenValue(Get(Config(type), key)) ELSE DefaultOf(type)

\* "a" has one attribute that gives a start, an end or both and nothing else
Partial(type) ==
    /\ Sole(type)
    /\ Config(type).props # <<>>
    /\ \A i \in 1..Len(Config(type).props) :
          /\ Config(type).props[i].k \in {StartKey(type), EndKey(type)}
          /\ Resolves(Config(type).props[i].v)

\* the number in the CSS value "a" got, undefined when there is none
EmittedOrNone(type) ==
    CASE type \in {"move", "rotate", "scale"} ->
            IF dom.style["a"].transform = <<>> THEN Undefined
            ELSE dom.style["a"].transform[1].args[1]
      [] type \in {"saturate", "blur"} ->
            IF dom.style["a"].filter = <<>> THEN Undefined
            ELSE dom.style["a"].filter[1].args[1]
      [] type = "fade" -> dom.style["a"].opacity

\* the value between the given or default start and end at the progress of
\* the pass
Between(type) ==
    Add(GivenOrDefault(type, StartKey(type)),
        Mul(Sub(GivenOrDefault(type, EndKey(type)), GivenOrDefault(type, StartKey(type))),
            res.progress))

\* C23: a start or end that is not supplied takes the default of the type
\* (fade 100, saturate 100, scale 100 per axis, rotate 0, move 0, blur 0) and
\* a supplied value, the number 0 included, is used as given: the element
\* is animated from the given or default start to the given or default end.
C23_DefaultsAndGiven ==
    \A type \in TypeSet :
        (res.pc = "animated" /\ Partial(type)) =>
            /\ ~res.threw
            /\ EmittedOrNone(type) = roundValue(InCss(type, Between(type)), Precision(type))

\* "a" has a combined form with keys of the axes beside it, "b" the same
\* combined form alone
CombinedWithAxes(type) ==
    /\ AttributeTypes(arg.el) = {type}
    /\ AttributeTypes(arg.twin) = {type}
    /\ HasCombined(Config(type))
    /\ \E i \in 1..Len(Config(type).props) : Config(type).props[i].k \notin {KeyStart, KeyEnd}
    /\ arg.twin[type].parse =
          Obj(SelectSeq(Config(type).props, LAMBDA prop : prop.k \in {KeyStart, KeyEnd}))

\* "a" has a rotate attribute with a top-level start or end and no easing
CombinedRotate ==
    /\ AttributeTypes(arg.el) = {"rotate"}
    /\ HasCombined(Config("rotate"))
    /\ ~HasKey(Config("rotate"), KeyEasing)

\* C24: with a top-level start or end the combined form is used and the keys
\* of the axes are ignored (the element is styled as without them); a rotate
\* then gets the single token rotate(Ndeg), N the angle between start and end
\* at the progress.
C24_CombinedIgnoresAxes ==
    res.pc = "animated" =>
        /\ \A type \in {"rotate", "scale"} :
              CombinedWithAxes(type) => (~res.threw /\ dom.style["a"] = dom.style["b"])
        /\ CombinedRotate =>
              dom.style["a"].transform =
                  <<Token("rotate", <<roundValue(Between("rotate"), 1)>>, "deg")>>

\* {"end":360,"endX":90} of a rotate at progress 0.5: rotate(180deg)
C24_Witness ==
    /\ res.pc = "animated"
    /\ res.progress = Fraction(1, 2)
    /\ CombinedWithAxes("rotate")
    /\ Config("rotate") = Obj(<<Prop(KeyEnd, Num(360)), Prop(KeyEndX, Num(90))>>)
    /\ dom.style["a"].transform = <<Token("rotate", <<Num(180)>>, "deg")>>

\* the unit of a filter's token
FilterUnit(type) == IF type = "saturate" THEN "%" ELSE "px"

\* a start or an end is given, and what is given stands for a number
GivenResolves(type) ==
    /\ HasCombined(Config(type))
    /\ HasKey(Config(type), KeyStart) => Resolves(Get(Config(type), KeyStart))
    /\ HasKey(Config(type), KeyEnd) => Resolves(Get(Config(type), KeyEnd))

\* C25, with the default for a side that is not given: a saturate or blur
\* token is emitted in a pass of animate exactly when the configuration has a
\* start or an end and every one it has stands for a number; the side that is
\* not given takes the default (saturate 100, blur 0).
C25_FilterWhenResolved ==
    \A type \in {"saturate", "blur"} :
        (res.pc = "animated" /\ Sole(type)) =>
            /\ ~res.threw
            /\ dom.style["a"].filter =
                  IF GivenResolves(type)
                  THEN <<Token(type, <<roundValue(Between(type), 0)>>, FilterUnit(type))>>
                  ELSE <<>>

\* C25 as stated: a token is emitted only if both start and end are given.
C25_FilterOnlyWhenBothGiven ==
    \A type \in {"saturate", "blur"} :
        (res.pc = "animated" /\ Sole(type) /\ dom.style["a"].filter # <<>>) =>
            (HasKey(Config(type), KeyStart) /\ HasKey(Config(type), KeyEnd))

\* {"start":20} of a saturate at progress 1: saturate(100%)
C25_Witness ==
    /\ res.pc = "animated"
    /\ res.progress = One
    /\ Sole("saturate")
    /\ Config("saturate") = Obj(<<Prop(KeyStart, Num(20))>>)
    /\ dom.style["a"].filter = <<Token("saturate", <<Num(100)>>, "%")>>
====
